---------------------------- MODULE Spec2Model ----------------------------
(***************************************************************************)
(* Reachability-based safety-override controller (DLMcPherson/             *)
(* personalWebsite): grid value functions, safe-set composition, obstacle  *)
(* scapes and the intervention controllers.                                *)
(*                                                                         *)
(* JavaScript numbers are modelled as exact rationals together with the    *)
(* non-numbers the code can produce (NaN, undefined, +-Infinity).  The     *)
(* inputs are rationals of small magnitude, nearly all dyadic, on which    *)
(* IEEE double arithmetic (+, -, *, / by a power of two) is exact.  The    *)
(* square root and the trigonometric functions are computed to a reduced   *)
(* precision that keeps their signs, zeros and ordering.                   *)
(***************************************************************************)
EXTENDS Integers, Sequences, FiniteSets, TLC

VARIABLES
    reachset,   \* loaded_SafeSet.reachset: the grid the fetch assigned
    gstates,    \* the state vector the caller passes to the loaded_SafeSet
    gq          \* the last query made on the loaded_SafeSet and what it returned

VARIABLES
    sset,       \* a composed safe set under query
    sstates,    \* the state vector the caller passes to it
    sq          \* the last query made on it and what it returned

VARIABLES
    obstacles,          \* Obstaclescape.obstacles
    obstacleDestroyed,  \* Obstaclescape.obstacleDestroyed
    obstacleUndetected, \* Obstaclescape.obstacleUndetected: a reference to an array
    undetectionscape,   \* maskedObstaclescape.undetectionscape: a reference to an array
    arrays,             \* the flag arrays on the heap, by reference
    ostates,            \* the state vector the caller passes to the scape
    osetID,             \* the palette index the caller passes to the scape
    oq                  \* the last operation on the scape and what it returned

gridVars == <<reachset, gstates, gq>>
setVars == <<sset, sstates, sq>>
scapeVars == <<obstacles, obstacleDestroyed, obstacleUndetected, undetectionscape,
               arrays, ostates, osetID, oq>>
VARIABLES
    robot,          \* the robot: its class, states and speed
    tracker,        \* intervener.tracker: the tracking controller
    intervener,     \* the intervention controller
    clock,          \* the clock of the main loop
    goalSetEvents,  \* record.goalSetEvents
    ArcadeScore,    \* the score
    uq              \* the last event of the main loop and the control it applied

controlVars == <<robot, tracker, intervener, clock, goalSetEvents, ArcadeScore, uq>>
vars == <<gridVars, setVars, scapeVars, controlVars>>

---------------------------------------------------------------------------
(* JavaScript values                                                       *)

Abs(x) == IF x < 0 THEN -x ELSE x

RECURSIVE GCD(_, _)
GCD(a, b) == IF b = 0 THEN a ELSE GCD(b, a % b)

\* the number n/d (d > 0) in lowest terms
Rat(n, d) ==
    LET g == GCD(Abs(n), d)
    IN  [k |-> "num", n |-> n \div g, d |-> d \div g]

Num(n) == [k |-> "num", n |-> n, d |-> 1]
NaN == [k |-> "NaN"]
Undefined == [k |-> "undefined"]
Inf(sign) == [k |-> "inf", n |-> sign]
TypeError == [k |-> "TypeError"]
Arr(seq) == [k |-> "arr", e |-> seq]

IsNum(a) == a.k = "num"
IsInf(a) == a.k = "inf"
Sign(a) == IF a.n > 0 THEN 1 ELSE IF a.n < 0 THEN -1 ELSE 0

\* a + b
JSAdd(a, b) ==
    IF IsNum(a) /\ IsNum(b)
    THEN LET g == GCD(a.d, b.d)
         IN  Rat(a.n * (b.d \div g) + b.n * (a.d \div g), (a.d \div g) * b.d)
    ELSE IF IsInf(a) /\ IsInf(b) THEN (IF a.n = b.n THEN a ELSE NaN)
    ELSE IF IsInf(a) /\ IsNum(b) THEN a
    ELSE IF IsNum(a) /\ IsInf(b) THEN b
    ELSE NaN

\* -a
JSNeg(a) ==
    IF IsNum(a) THEN Rat(-a.n, a.d)
    ELSE IF IsInf(a) THEN Inf(-a.n)
    ELSE NaN

\* a - b
JSSub(a, b) == JSAdd(a, JSNeg(b))

\* a * b
JSMul(a, b) ==
    IF IsNum(a) /\ IsNum(b) THEN Rat(a.n * b.n, a.d * b.d)
    ELSE IF (IsNum(a) \/ IsInf(a)) /\ (IsNum(b) \/ IsInf(b))
         THEN (IF Sign(a) * Sign(b) = 0 THEN NaN ELSE Inf(Sign(a) * Sign(b)))
    ELSE NaN

\* a / b
JSDiv(a, b) ==
    IF IsNum(a) /\ IsNum(b)
    THEN IF b.n = 0
         THEN (IF a.n = 0 THEN NaN ELSE Inf(Sign(a)))
         ELSE Rat(a.n * b.d * Sign(b), a.d * Abs(b.n))
    ELSE IF IsInf(a) /\ IsNum(b) THEN Inf(a.n * (IF b.n < 0 THEN -1 ELSE 1))
    ELSE IF IsNum(a) /\ IsInf(b) THEN Num(0)
    ELSE NaN

\* a < b
JSLt(a, b) ==
    IF IsNum(a) /\ IsNum(b)
    THEN LET g == GCD(a.d, b.d)
         IN  a.n * (b.d \div g) < b.n * (a.d \div g)
    ELSE IF IsInf(a) /\ IsNum(b) THEN a.n < 0
    ELSE IF IsNum(a) /\ IsInf(b) THEN b.n > 0
    ELSE IF IsInf(a) /\ IsInf(b) THEN a.n < b.n
    ELSE FALSE

\* a > b
JSGt(a, b) == JSLt(b, a)

\* a >= b
JSGe(a, b) ==
    /\ (IsNum(a) \/ IsInf(a))
    /\ (IsNum(b) \/ IsInf(b))
    /\ ~JSLt(a, b)

\* a == b
JSEq(a, b) == (IsNum(a) \/ IsInf(a)) /\ a = b

\* Math.floor(a), Math.ceil(a)
MathFloor(a) == IF IsNum(a) THEN Num(a.n \div a.d) ELSE IF IsInf(a) THEN a ELSE NaN
MathCeil(a) == IF IsNum(a) THEN Num(-((-a.n) \div a.d)) ELSE IF IsInf(a) THEN a ELSE NaN

\* Math.abs(a)
MathAbs(a) == IF IsNum(a) THEN Rat(Abs(a.n), a.d) ELSE IF IsInf(a) THEN Inf(1) ELSE NaN

\* the condition of if(a): false, 0, NaN and undefined are falsy
Truthy(a) ==
    IF a \in BOOLEAN THEN a
    ELSE IF IsNum(a) THEN a.n # 0
    ELSE a.k \in {"inf", "arr"}

\* the condition of if(a) for a number a: 0 and NaN are falsy
TruthyNumber(a) == IF IsNum(a) THEN a.n # 0 ELSE IsInf(a)

\* array[i] for a JavaScript array held as a sequence (0-based index i, a
\* JavaScript value): undefined outside the array
Elem(seq, i) ==
    IF IsNum(i) /\ i.d = 1 /\ i.n >= 0 /\ i.n < Len(seq) THEN seq[i.n + 1] ELSE Undefined

\* v[i] for any JavaScript value v: indexing undefined throws, indexing a
\* number yields undefined
Index(v, i) ==
    IF v.k \in {"undefined", "TypeError"} THEN TypeError
    ELSE IF v.k = "arr" THEN Elem(v.e, i)
    ELSE Undefined

RECURSIVE Pow2(_)
Pow2(n) == IF n = 0 THEN 1 ELSE 2 * Pow2(n - 1)

---------------------------------------------------------------------------
(* loaded_SafeSet: value function on a grid                                *)

\* one index of nearIndices with gridwrap: periodic axes wrap once
nearIndicesWrap(i, N) ==
    LET i1 == IF JSLt(i, Num(0)) THEN JSAdd(i, N) ELSE i
    IN  IF JSGe(i1, N) THEN JSSub(i1, N) ELSE i1

\* one index of nearIndices with gridwrap: other axes are projected
nearIndicesClamp(i, N) ==
    LET i1 == IF JSLt(i, Num(0)) THEN Num(0) ELSE i
    IN  IF JSGe(i1, N) THEN JSSub(N, Num(1)) ELSE i1

\* nearIndices(_states, gridwrap): [low, high], one index per state component
nearIndices(rs, states, gridwrap) ==
    LET q(x) == JSDiv(JSSub(states[x], Elem(rs.gmin, Num(x - 1))),
                      Elem(rs.gdx, Num(x - 1)))
        fix(i, x) ==
            IF ~gridwrap THEN i
            ELSE IF Truthy(Elem(rs.gperiodicity, Num(x - 1)))
                 THEN nearIndicesWrap(i, Elem(rs.gN, Num(x - 1)))
                 ELSE nearIndicesClamp(i, Elem(rs.gN, Num(x - 1)))
    IN  [low  |-> [x \in 1..Len(states) |-> fix(MathFloor(q(x)), x)],
         high |-> [x \in 1..Len(states) |-> fix(MathCeil(q(x)), x)]]

\* indexToState(index, dim)
indexToState(rs, index, dim) ==
    JSAdd(JSMul(index, Elem(rs.gdx, Num(dim))), Elem(rs.gmin, Num(dim)))

\* the weight value() gives an axis on which the state lies on a grid line
edgeDistanceToLower == Num(1)

\* value(): distance from the state to the lower / higher corner along axis x
distanceToLower(rs, states, ni, x) ==
    IF JSEq(ni.low[x], ni.high[x]) THEN edgeDistanceToLower
    ELSE JSSub(states[x], indexToState(rs, ni.low[x], x - 1))

distanceToHigher(rs, states, ni, x) ==
    IF JSEq(ni.low[x], ni.high[x]) THEN Num(0)
    ELSE JSSub(indexToState(rs, ni.high[x], x - 1), states[x])

\* value(): the index correction of a periodic axis, one wrap each way
valueWrap(i, N) ==
    LET i1 == IF JSLt(i, Num(0)) THEN JSAdd(i, N) ELSE i
    IN  IF JSGe(i1, N) THEN JSSub(i1, N) ELSE i1

\* value(): the index correction of a non-periodic axis
valueClamp(i, N) ==
    LET i1 == IF JSLt(i, Num(0)) THEN Num(0) ELSE i
    IN  IF JSGe(i1, N) THEN JSSub(N, Num(1)) ELSE i1

\* value(): the corrected index of axis x
valueIndex(rs, i, x) ==
    IF Truthy(Elem(rs.gperiodicity, Num(x - 1)))
    THEN valueWrap(i, Elem(rs.gN, Num(x - 1)))
    ELSE valueClamp(i, Elem(rs.gN, Num(x - 1)))

\* corner & Math.pow(2,xDim), xDim = x - 1
cornerBit(corner, x) == (corner \div Pow2(x - 1)) % 2 = 1

\* value(): the volume between the state and the corner opposite to `corner`
RECURSIVE cornerVolume(_, _, _, _, _)
cornerVolume(rs, states, ni, corner, x) ==
    IF x = 0 THEN Num(1)
    ELSE JSMul(cornerVolume(rs, states, ni, corner, x - 1),
               IF cornerBit(corner, x)
               THEN distanceToLower(rs, states, ni, x)
               ELSE distanceToHigher(rs, states, ni, x))

\* value(): the datum at `corner`, peeled out of the nested array axis by axis
RECURSIVE cornerValue(_, _, _, _, _)
cornerValue(rs, states, ni, corner, x) ==
    IF x = 0 THEN rs.data
    ELSE Index(cornerValue(rs, states, ni, corner, x - 1),
               IF cornerBit(corner, x)
               THEN valueIndex(rs, ni.high[x], x)
               ELSE valueIndex(rs, ni.low[x], x))

\* value += volume * cornerValue, a datum that is no number counts as NaN
RECURSIVE weightedSum(_, _, _, _)
weightedSum(rs, states, ni, corner) ==
    IF corner < 0 THEN Num(0)
    ELSE JSAdd(weightedSum(rs, states, ni, corner - 1),
               JSMul(cornerVolume(rs, states, ni, corner, Len(states)),
                     cornerValue(rs, states, ni, corner, Len(states))))

\* total_volume: the product of the grid spacings
RECURSIVE totalVolume(_, _)
totalVolume(rs, x) ==
    IF x = 0 THEN Num(1)
    ELSE JSMul(totalVolume(rs, x - 1), Elem(rs.gdx, Num(x - 1)))

\* value(states): the interpolated value, or TypeError when a corner lookup
\* indexes undefined
value(rs, states) ==
    LET ni == nearIndices(rs, states, FALSE)
        D == Len(states)
    IN  IF \E corner \in 0..(Pow2(D) - 1) :
               cornerValue(rs, states, ni, corner, D) = TypeError
        THEN TypeError
        ELSE JSDiv(weightedSum(rs, states, ni, Pow2(D) - 1), totalVolume(rs, D))

\* gradV2(states): finite difference of length gdx centred at the state
gradV2(rs, states) ==
    [x \in 1..Len(states) |->
        LET half == JSDiv(Elem(rs.gdx, Num(x - 1)), Num(2))
            statesLow == [states EXCEPT ![x] = JSSub(states[x], half)]
            statesHigh == [states EXCEPT ![x] = JSAdd(states[x], half)]
            vHigh == value(rs, statesHigh)
            vLow == value(rs, statesLow)
        IN  IF vHigh = TypeError \/ vLow = TypeError THEN TypeError
            ELSE JSDiv(JSSub(vHigh, vLow), Elem(rs.gdx, Num(x - 1)))]

\* gradV1(states): finite difference between the nearest grid points on both
\* sides of the state
gradV1(rs, states) ==
    LET ni == nearIndices(rs, states, TRUE)
    IN  [x \in 1..Len(states) |->
            LET statesLow == [states EXCEPT ![x] = indexToState(rs, ni.low[x], x - 1)]
                statesHigh == [states EXCEPT ![x] = indexToState(rs, ni.high[x], x - 1)]
                vHigh == value(rs, statesHigh)
                vLow == value(rs, statesLow)
            IN  IF vHigh = TypeError \/ vLow = TypeError THEN TypeError
                ELSE JSDiv(JSSub(vHigh, vLow), Elem(rs.gdx, Num(x - 1)))]

\* a gradV that uses the first gradient method
loaded_gradV1(rs, states) ==
    LET g == gradV1(rs, states)
    IN  IF \E x \in 1..Len(states) : g[x] = TypeError THEN TypeError ELSE g

\* loaded_SafeSet.gradV(states): the second gradient method
loaded_gradV(rs, states) ==
    LET g == gradV2(rs, states)
    IN  IF \E x \in 1..Len(states) : g[x] = TypeError THEN TypeError ELSE g

---------------------------------------------------------------------------
(* Analytic safe sets and safe-set composition.  A safe set is a record    *)
(* whose field cls names its class; value and gradV dispatch on it.        *)

RECURSIVE SafeSetValue(_, _)
RECURSIVE SafeSetGradV(_, _)

\* Math.pow(x, 0.5) is computed to SqrtDen-ths: exactly where the root is a
\* multiple of 1/SqrtDen, rounded down to one elsewhere
SqrtDen == 16

RECURSIVE ISqrtBetween(_, _, _)
ISqrtBetween(m, lo, hi) ==
    IF hi - lo <= 1 THEN lo
    ELSE LET mid == (lo + hi) \div 2
         IN  IF mid * mid <= m THEN ISqrtBetween(m, mid, hi)
             ELSE ISqrtBetween(m, lo, mid)

MathSqrt(a) ==
    IF IsNum(a)
    THEN IF a.n < 0 THEN NaN
         ELSE LET m == (a.n * SqrtDen * SqrtDen) \div a.d
              IN  Rat(ISqrtBetween(m, 0, IF m < 46340 THEN m + 1 ELSE 46341), SqrtDen)
    ELSE IF IsInf(a) /\ a.n > 0 THEN a
    ELSE NaN

\* SafeSet.value / SafeSet.gradV of the 'virtual' class
SafeSet_value(set, states) == Num(0)
SafeSet_gradV(set, states) == Num(0)

\* DoubleIntegrator_SafeSet.value(states)
DoubleIntegrator_value(set, states) ==
    LET p == Elem(states, Num(0))
        v == Elem(states, Num(1))
        gap == JSSub(MathAbs(JSSub(p, set.obP)), set.obL)
    IN  IF JSLt(JSMul(v, JSSub(set.obP, p)), Num(0)) THEN gap
        ELSE JSSub(gap, JSDiv(JSMul(v, v), JSMul(Num(2), set.leeway)))

\* DoubleIntegrator_SafeSet.gradV(states)
DoubleIntegrator_gradV(set, states) ==
    LET p == Elem(states, Num(0))
        v == Elem(states, Num(1))
        dVdp == IF JSLt(JSSub(p, set.obP), Num(0)) THEN Num(-1) ELSE Num(1)
        dVdv == IF JSLt(JSMul(v, JSSub(set.obP, p)), Num(0)) THEN Num(0)
                ELSE JSDiv(JSNeg(v), set.leeway)
    IN  <<dVdp, dVdv>>

\* dubinsCircle_Set.value(states)
dubinsCircle_value(set, states) ==
    LET x == Elem(states, Num(0))
        y == Elem(states, Num(1))
    IN  JSSub(MathSqrt(JSAdd(JSMul(x, x), JSMul(y, y))), set.radius)

\* dubinsCircle_Set.gradV(states)
dubinsCircle_gradV(set, states) ==
    LET x == Elem(states, Num(0))
        y == Elem(states, Num(1))
        norm == MathSqrt(JSAdd(JSMul(x, x), JSMul(y, y)))
    IN  <<JSDiv(x, norm), JSDiv(y, norm), Num(0)>>

\* dubIntInterval_Set.value(states)
dubIntInterval_value(set, states) ==
    JSSub(MathAbs(Elem(states, Num(0))), set.width)

\* dubIntInterval_Set.gradV(states)
dubIntInterval_gradV(set, states) ==
    LET norm == MathAbs(Elem(states, Num(0)))
    IN  <<JSDiv(Elem(states, Num(0)), norm), Num(0)>>

\* UnionedSafeSet.value(states)
UnionedSafeSet_value(set, states) ==
    LET valueA == SafeSetValue(set.setA, states)
        valueB == SafeSetValue(set.setB, states)
    IN  IF JSLt(valueA, valueB) THEN valueA ELSE valueB

\* UnionedSafeSet.gradV with the comparison valueA <= valueB
UnionedSafeSet_gradV_TiesToA(set, states) ==
    LET valueA == SafeSetValue(set.setA, states)
        valueB == SafeSetValue(set.setB, states)
    IN  IF JSLt(valueB, valueA) THEN SafeSetGradV(set.setB, states)
        ELSE SafeSetGradV(set.setA, states)

\* UnionedSafeSet.gradV(states)
UnionedSafeSet_gradV(set, states) ==
    LET valueA == SafeSetValue(set.setA, states)
        valueB == SafeSetValue(set.setB, states)
    IN  IF JSLt(valueA, valueB) THEN SafeSetGradV(set.setA, states)
        ELSE SafeSetGradV(set.setB, states)

\* twoTwo.statesA / statesB: the sub-vector of each subsystem
twoTwo_statesA(states) == <<Elem(states, Num(0)), Elem(states, Num(1))>>
twoTwo_statesB(states) == <<Elem(states, Num(2)), Elem(states, Num(3))>>

\* twoTwo.valueA / valueB
twoTwo_valueA(set, states) == SafeSetValue(set.setA, twoTwo_statesA(states))
twoTwo_valueB(set, states) == SafeSetValue(set.setB, twoTwo_statesB(states))

\* twoTwo.value(states)
twoTwo_value(set, states) ==
    IF JSLt(twoTwo_valueA(set, states), twoTwo_valueB(set, states))
    THEN twoTwo_valueB(set, states)
    ELSE twoTwo_valueA(set, states)

\* twoTwo.gradV with the comparison valueA <= valueB
twoTwo_gradV_TiesToB(set, states) ==
    IF ~JSLt(twoTwo_valueB(set, states), twoTwo_valueA(set, states))
    THEN LET gradientB == SafeSetGradV(set.setB, twoTwo_statesB(states))
         IN  <<Num(0), Num(0), gradientB[1], gradientB[2]>>
    ELSE LET gradientA == SafeSetGradV(set.setA, twoTwo_statesA(states))
         IN  <<gradientA[1], gradientA[2], Num(0), Num(0)>>

\* twoTwo.gradV(states)
twoTwo_gradV(set, states) ==
    IF JSLt(twoTwo_valueA(set, states), twoTwo_valueB(set, states))
    THEN LET gradientB == SafeSetGradV(set.setB, twoTwo_statesB(states))
         IN  <<Num(0), Num(0), gradientB[1], gradientB[2]>>
    ELSE LET gradientA == SafeSetGradV(set.setA, twoTwo_statesA(states))
         IN  <<gradientA[1], gradientA[2], Num(0), Num(0)>>

\* set.value(states), dispatched on the class of the set
SafeSetValue(set, states) ==
    CASE set.cls = "DoubleIntegrator_SafeSet" -> DoubleIntegrator_value(set, states)
      [] set.cls = "dubinsCircle_Set" -> dubinsCircle_value(set, states)
      [] set.cls = "dubIntInterval_Set" -> dubIntInterval_value(set, states)
      [] set.cls = "loaded_SafeSet" ->
             IF set.reachset = Undefined THEN TypeError
             ELSE value(set.reachset, states)
      [] set.cls = "UnionedSafeSet" -> UnionedSafeSet_value(set, states)
      [] set.cls = "twoTwo" -> twoTwo_value(set, states)
      [] OTHER -> SafeSet_value(set, states)

\* set.gradV(states), dispatched on the class of the set
SafeSetGradV(set, states) ==
    CASE set.cls = "DoubleIntegrator_SafeSet" -> DoubleIntegrator_gradV(set, states)
      [] set.cls = "dubinsCircle_Set" -> dubinsCircle_gradV(set, states)
      [] set.cls = "dubIntInterval_Set" -> dubIntInterval_gradV(set, states)
      [] set.cls = "loaded_SafeSet" ->
             IF set.reachset = Undefined THEN TypeError
             ELSE loaded_gradV(set.reachset, states)
      [] set.cls = "UnionedSafeSet" -> UnionedSafeSet_gradV(set, states)
      [] set.cls = "twoTwo" -> twoTwo_gradV(set, states)
      [] OTHER -> SafeSet_gradV(set, states)

\* a clamping palette: an index outside the array answers as the nearest entry
SafeSetPalette_valueClamped(palette, setID, states) ==
    SafeSetValue(palette.safesets[IF setID < 0 THEN 1
                                  ELSE IF setID >= Len(palette.safesets)
                                       THEN Len(palette.safesets)
                                       ELSE setID + 1], states)

\* SafeSetPalette.value(setID, states) / gradV(setID, states):
\* safesets[setID] is undefined outside the array, and calling a method of
\* undefined throws
SafeSetPalette_value(palette, setID, states) ==
    IF setID \in 0..(Len(palette.safesets) - 1)
    THEN SafeSetValue(palette.safesets[setID + 1], states)
    ELSE TypeError

SafeSetPalette_gradV(palette, setID, states) ==
    IF setID \in 0..(Len(palette.safesets) - 1)
    THEN SafeSetGradV(palette.safesets[setID + 1], states)
    ELSE TypeError

DoubleIntegrator_SafeSet(leeway, obP, obL) ==
    [cls |-> "DoubleIntegrator_SafeSet", leeway |-> leeway, obP |-> obP, obL |-> obL]
dubinsCircle_Set(radius) == [cls |-> "dubinsCircle_Set", radius |-> radius]
dubIntInterval_Set(width) == [cls |-> "dubIntInterval_Set", width |-> width]
loaded_SafeSet(rs) == [cls |-> "loaded_SafeSet", reachset |-> rs]
UnionedSafeSet(setA, setB) == [cls |-> "UnionedSafeSet", setA |-> setA, setB |-> setB]
twoTwo(setA, setB) == [cls |-> "twoTwo", setA |-> setA, setB |-> setB]
SafeSetPalette(safesetArray) == [cls |-> "SafeSetPalette", safesets |-> safesetArray]

---------------------------------------------------------------------------
(* Obstacle, Obstaclescape, maskedObstaclescape                            *)

\* an offsetStates that adds the offset
Obstacle_offsetStatesAdded(ob, states) ==
    [curDim \in 1..Len(states) |->
        JSAdd(states[curDim], Elem(ob.offset, Num(curDim - 1)))]

\* Obstacle.offsetStates(states)
Obstacle_offsetStates(ob, states) ==
    [curDim \in 1..Len(states) |->
        JSSub(states[curDim], Elem(ob.offset, Num(curDim - 1)))]

\* Obstacle.collisionSetValue(states)
Obstacle_collisionSetValue(ob, states) ==
    SafeSetValue(ob.collisionSet, Obstacle_offsetStates(ob, states))

\* Obstacle.value(setID, states)
Obstacle_value(ob, setID, states) ==
    SafeSetPalette_value(ob.avoidSets, setID, Obstacle_offsetStates(ob, states))

\* Obstacle.gradV(setID, states)
Obstacle_gradV(ob, setID, states) ==
    SafeSetPalette_gradV(ob.avoidSets, setID, Obstacle_offsetStates(ob, states))

\* new BoxObstacle(_ObX, _ObY, _ObW, _ObH, avoidSets)
BoxObstacle(ObX, ObY, ObW, ObH, avoidSets) ==
    [cls |-> "BoxObstacle", avoidSets |-> avoidSets,
     offset |-> <<ObX, Num(0), ObY, Num(0)>>,
     collisionSet |-> twoTwo(dubIntInterval_Set(ObW), dubIntInterval_Set(ObH))]

\* new RoundObstacle(_ObX, _ObY, _ObR, radiusTrim, avoidSets)
RoundObstacle(ObX, ObY, ObR, radiusTrim, avoidSets) ==
    [cls |-> "RoundObstacle", avoidSets |-> avoidSets,
     offset |-> <<ObX, ObY, Num(0)>>,
     collisionSet |-> dubinsCircle_Set(JSMul(ObR, Rat(95, 100)))]

\* the running minimum the scape queries start from
curMinValueInit == 100

\* the loop of Obstaclescape.value from obstacle obNum on
RECURSIVE Obstaclescape_valueLoop(_, _, _, _, _, _, _)
Obstaclescape_valueLoop(obs, destroyed, undetected, setID, states, obNum, curMinValue) ==
    IF obNum >= Len(obs) THEN curMinValue
    ELSE IF destroyed[obNum + 1] = FALSE /\ undetected[obNum + 1] = FALSE
         THEN LET obsValue == Obstacle_value(obs[obNum + 1], setID, states)
              IN  Obstaclescape_valueLoop(obs, destroyed, undetected, setID, states,
                      obNum + 1,
                      IF JSLt(obsValue, curMinValue) THEN obsValue ELSE curMinValue)
         ELSE Obstaclescape_valueLoop(obs, destroyed, undetected, setID, states,
                      obNum + 1, curMinValue)

\* Obstaclescape.value(setID, states)
Obstaclescape_value(obs, destroyed, undetected, setID, states) ==
    Obstaclescape_valueLoop(obs, destroyed, undetected, setID, states, 0,
                            Num(curMinValueInit))

\* the loop of Obstaclescape.collisionSetValue from obstacle obNum on
RECURSIVE Obstaclescape_collisionLoop(_, _, _, _, _, _, _)
Obstaclescape_collisionLoop(obs, destroyed, undetected, states, obNum, curMinValue, curMinOb) ==
    IF obNum >= Len(obs) THEN <<curMinValue, Num(curMinOb)>>
    ELSE IF destroyed[obNum + 1] = FALSE /\ undetected[obNum + 1] = TRUE
         THEN LET obsValue == Obstacle_collisionSetValue(obs[obNum + 1], states)
              IN  IF JSLt(obsValue, curMinValue)
                  THEN Obstaclescape_collisionLoop(obs, destroyed, undetected, states,
                           obNum + 1, obsValue, obNum)
                  ELSE Obstaclescape_collisionLoop(obs, destroyed, undetected, states,
                           obNum + 1, curMinValue, curMinOb)
         ELSE Obstaclescape_collisionLoop(obs, destroyed, undetected, states,
                  obNum + 1, curMinValue, curMinOb)

\* Obstaclescape.collisionSetValue(states): [curMinValue, curMinOb]
Obstaclescape_collisionSetValue(obs, destroyed, undetected, states) ==
    Obstaclescape_collisionLoop(obs, destroyed, undetected, states, 0,
                                Num(curMinValueInit), 0)

\* the loop of Obstaclescape.gradV from obstacle obNum on: dominantObstacle
RECURSIVE Obstaclescape_dominantLoop(_, _, _, _, _, _, _, _)
Obstaclescape_dominantLoop(obs, destroyed, undetected, setID, states, obNum, curMinValue, dominantObstacle) ==
    IF obNum >= Len(obs) THEN dominantObstacle
    ELSE IF destroyed[obNum + 1] = FALSE /\ undetected[obNum + 1] = FALSE
         THEN LET obsValue == Obstacle_value(obs[obNum + 1], setID, states)
              IN  IF JSLt(obsValue, curMinValue)
                  THEN Obstaclescape_dominantLoop(obs, destroyed, undetected, setID,
                           states, obNum + 1, obsValue, obNum)
                  ELSE Obstaclescape_dominantLoop(obs, destroyed, undetected, setID,
                           states, obNum + 1, curMinValue, dominantObstacle)
         ELSE Obstaclescape_dominantLoop(obs, destroyed, undetected, setID, states,
                  obNum + 1, curMinValue, dominantObstacle)

\* Obstaclescape.gradV: the obstacle whose gradient is returned
Obstaclescape_dominantObstacle(obs, destroyed, undetected, setID, states) ==
    Obstaclescape_dominantLoop(obs, destroyed, undetected, setID, states, 0,
                               Num(curMinValueInit), 0)

\* Obstaclescape.gradV(setID, states)
Obstaclescape_gradV(obs, destroyed, undetected, setID, states) ==
    Obstacle_gradV(
        obs[Obstaclescape_dominantObstacle(obs, destroyed, undetected, setID, states) + 1],
        setID, states)

\* the array references: 1 is the array the Obstaclescape owns (the one its
\* constructor made, later the latest copy assigned to it; a dropped copy is
\* garbage and its reference is reused), 2 the array the maskedObstaclescape owns
ScapeArray == 1
MaskArray == 2

\* this.obstaclescape.obstacleUndetected = this.undetectionscape.slice():
\* the heap and the reference the Obstaclescape holds afterwards
pushMaskAliased(heap, mask) == [arrays |-> heap, ref |-> mask]

maskedObstaclescape_pushMask(heap, mask) ==
    [arrays |-> [heap EXCEPT ![ScapeArray] = heap[mask]], ref |-> ScapeArray]

---------------------------------------------------------------------------
(* Robots and controllers.  Math.PI, Math.cos, Math.sin and Math.atan2 are *)
(* modelled to reduced precision: PI is 25/8, an angle is resolved to the  *)
(* sixteenth of a turn it falls in (on a compass ray q*PI/4, or strictly   *)
(* between two of them), and cosines and sines are given in eighths.  The  *)
(* sign of every result is the sign the exact function has.                *)

MathPI == Rat(25, 8)

\* the sixteenth of a turn of angle a: 2q on the ray q*PI/4, 2q+1 strictly
\* between the rays q and q+1
Sector(a) ==
    LET q == (32 * a.n) \div (25 * a.d)
    IN  (IF (32 * a.n) % (25 * a.d) = 0 THEN 2 * q ELSE 2 * q + 1) % 16

\* eight times the cosine of the sixteenths of a turn
CosEighths == <<8, 7, 6, 3, 0, -3, -6, -7, -8, -7, -6, -3, 0, 3, 6, 7>>

\* Math.cos(a), Math.sin(a)
MathCos(a) == IF IsNum(a) THEN Rat(CosEighths[Sector(a) + 1], 8) ELSE NaN
MathSin(a) == IF IsNum(a) THEN Rat(CosEighths[((Sector(a) + 12) % 16) + 1], 8) ELSE NaN

\* Math.atan2(y, x)
MathAtan2(y, x) ==
    IF ~(IsNum(y) /\ IsNum(x)) THEN NaN
    ELSE LET first == IF MathAbs(y) = MathAbs(x) THEN 2
                      ELSE IF JSLt(MathAbs(y), MathAbs(x)) THEN 1 ELSE 3
             sector == IF y.n = 0 THEN (IF x.n >= 0 THEN 0 ELSE 8)
                       ELSE IF x.n = 0 THEN (IF y.n > 0 THEN 4 ELSE -4)
                       ELSE IF x.n > 0 THEN (IF y.n > 0 THEN first ELSE -first)
                       ELSE (IF y.n > 0 THEN 8 - first ELSE first - 8)
         IN  JSMul(Rat(sector, 8), MathPI)

\* new Robot(texture): the state vector starts as [0,0,0]
Robot == [cls |-> "Robot", states |-> <<Num(0), Num(0), Num(0)>>]
QuadrotorRobot(initial_state) == [cls |-> "QuadrotorRobot", states |-> initial_state]
VerticalQuadrotorRobot(initial_state) ==
    [cls |-> "VerticalQuadrotorRobot", states |-> initial_state]
DubinsRobot(initial_state, velocity) ==
    [cls |-> "DubinsRobot", states |-> initial_state, speed |-> velocity]

\* robot.driftDynamics()
Robot_driftDynamics(rbt) ==
    IF rbt.cls = "QuadrotorRobot"
    THEN <<Elem(rbt.states, Num(1)), Num(0), Elem(rbt.states, Num(3)), Num(0)>>
    ELSE IF rbt.cls = "VerticalQuadrotorRobot"
    THEN <<Elem(rbt.states, Num(1)), Num(0)>>
    ELSE IF rbt.cls = "Robot"
    THEN <<Num(0), Num(0), Num(0)>>
    ELSE <<JSMul(rbt.speed, MathCos(Elem(rbt.states, Num(2)))),
           JSMul(rbt.speed, MathSin(Elem(rbt.states, Num(2)))),
           Num(0)>>

\* robot.controlCoefficient()
Robot_controlCoefficient(rbt) ==
    IF rbt.cls = "QuadrotorRobot"
    THEN << <<Num(0), Num(1), Num(0), Num(0)>>, <<Num(0), Num(0), Num(0), Num(1)>> >>
    ELSE IF rbt.cls = "VerticalQuadrotorRobot"
    THEN << <<Num(0), Num(1)>> >>
    ELSE IF rbt.cls = "Robot"
    THEN << Num(0) >>
    ELSE << <<Num(0), Num(0), Num(1)>> >>

\* robot.controlCoefficient()[uNum][stateNum]: the base Robot's matrix is
\* [0], whose entry 0 is a number, and indexing a number yields undefined
Robot_coefficientEntry(rbt, uNum, stateNum) ==
    IF rbt.cls = "Robot" THEN Index(Robot_controlCoefficient(rbt)[uNum + 1], Num(stateNum))
    ELSE Elem(Robot_controlCoefficient(rbt)[uNum + 1], Num(stateNum))

\* the loop of robot.dynamics(u, stateNum) from control uNum on
RECURSIVE Robot_dynamicsLoop(_, _, _, _, _)
Robot_dynamicsLoop(rbt, u, stateNum, uNum, result) ==
    IF uNum >= Len(u) THEN result
    ELSE CHOOSE out \in
             { Robot_dynamicsLoop(rbt, u, stateNum, uNum + 1, mixed) :
                 mixed \in { JSAdd(result,
                                JSMul(Robot_coefficientEntry(rbt, uNum, stateNum),
                                      u[uNum + 1])) } } : TRUE

\* robot.dynamics(u, stateNum) for a control array u
Robot_dynamics(rbt, u, stateNum) ==
    Robot_dynamicsLoop(rbt, u, stateNum, 0,
                       Elem(Robot_driftDynamics(rbt), Num(stateNum)))

\* dynamicUpdate with the state components overwritten from the last to
\* the first
RECURSIVE Robot_updateLoopDescending(_, _, _, _)
Robot_updateLoopDescending(rbt, delT, u, curDim) ==
    IF curDim >= Len(rbt.states) THEN rbt
    ELSE CHOOSE out \in
             { Robot_updateLoopDescending(stepped, delT, u, curDim + 1) :
                 stepped \in { [rbt EXCEPT !.states[Len(rbt.states) - curDim] =
                                   JSAdd(@, JSMul(Robot_dynamics(rbt, u,
                                                      Len(rbt.states) - curDim - 1),
                                                  delT))] } } :
             TRUE

\* the loop of dynamicUpdate(delT, u) from state curDim on: states are
\* overwritten one by one, the drift reading the states as they stand
RECURSIVE Robot_updateLoop(_, _, _, _)
Robot_updateLoop(rbt, delT, u, curDim) ==
    IF curDim >= Len(rbt.states) THEN rbt
    ELSE CHOOSE out \in
             { Robot_updateLoop(stepped, delT, u, curDim + 1) :
                 stepped \in { [rbt EXCEPT !.states[curDim + 1] =
                                   JSAdd(@, JSMul(Robot_dynamics(rbt, u, curDim), delT))] } } :
             TRUE

\* Robot.dynamicUpdate(delT, u)
Robot_dynamicUpdate(rbt, delT, u) == Robot_updateLoop(rbt, delT, u, 0)

\* DubinsRobot.dynamicUpdate(delT, u): the heading is wrapped after the step
DubinsRobot_dynamicUpdate(rbt, delT, u) ==
    CHOOSE out \in
        { IF JSLt(down.states[3], JSNeg(MathPI))
          THEN [down EXCEPT !.states[3] = JSAdd(@, JSMul(Num(2), MathPI))]
          ELSE down :
            down \in { IF JSGt(stepped.states[3], MathPI)
                       THEN [stepped EXCEPT !.states[3] = JSSub(@, JSMul(Num(2), MathPI))]
                       ELSE stepped :
                         stepped \in { Robot_updateLoop(rbt, delT, u, 0) } } } : TRUE

\* robot.update(delT, u)
Robot_update(rbt, delT, u) ==
    IF rbt.cls = "DubinsRobot" THEN DubinsRobot_dynamicUpdate(rbt, delT, u)
    ELSE Robot_dynamicUpdate(rbt, delT, u)

PD_Contr(set, controlledState) ==
    [cls |-> "PD_Contr", setpoint |-> set, K_P |-> Num(-2), K_D |-> Num(-2),
     controlledState |-> controlledState, lastU |-> Num(0)]
Concat_Contr(controllerArray) == [cls |-> "Concat_Contr", controllers |-> controllerArray]
Dubins_Contr(Umax, set) == [cls |-> "Dubins_Contr", Umax |-> Umax, set |-> set]

\* PD_Contr.u(): resultU.  lastU is a number, so the loop of
\* robot.dynamics(lastU, controlledState) over lastU.length never runs and
\* the call returns the drift of the controlled state
PD_Contr_resultU(rbt, pd) ==
    LET P == JSMul(pd.K_P, JSSub(Elem(rbt.states, Num(pd.controlledState)), pd.setpoint))
        D == JSMul(pd.K_D, Elem(Robot_driftDynamics(rbt), Num(pd.controlledState)))
    IN  JSAdd(P, D)

\* Concat_Contr.u(): the control returned and the controllers left behind
Concat_Contr_u(rbt, trk) ==
    [u |-> [curU \in 1..Len(trk.controllers) |->
               PD_Contr_resultU(rbt, trk.controllers[curU])],
     tracker |-> [trk EXCEPT !.controllers =
                     [curU \in 1..Len(trk.controllers) |->
                         [trk.controllers[curU] EXCEPT !.lastU =
                             PD_Contr_resultU(rbt, trk.controllers[curU])]]]]

\* Dubins_Contr.u()
Dubins_Contr_u(rbt, trk) ==
    LET deltaX == JSSub(Elem(trk.set, Num(0)), Elem(rbt.states, Num(0)))
        deltaY == JSSub(Elem(trk.set, Num(1)), Elem(rbt.states, Num(1)))
        trackAngle == MathAtan2(deltaY, deltaX)
        difference == JSSub(Elem(rbt.states, Num(2)), trackAngle)
        angleDifference == MathAtan2(MathSin(difference), MathCos(difference))
    IN  [u |-> << IF JSGt(angleDifference, Num(0)) THEN JSNeg(trk.Umax)
                  ELSE IF JSLt(angleDifference, Num(0)) THEN trk.Umax
                  ELSE Num(0) >>,
         tracker |-> trk]

\* tracker.u(), dispatched on the class of the tracker
Tracker_u(rbt, trk) ==
    IF trk.cls = "Concat_Contr" THEN Concat_Contr_u(rbt, trk)
    ELSE Dubins_Contr_u(rbt, trk)

\* Safe_Contr.dotProduct(a, b)
RECURSIVE Safe_Contr_dotProductLoop(_, _, _, _)
Safe_Contr_dotProductLoop(a, b, i, sum) ==
    IF i >= Len(a) THEN sum
    ELSE CHOOSE out \in
             { Safe_Contr_dotProductLoop(a, b, i + 1, added) :
                 added \in { JSAdd(sum, JSMul(a[i + 1], Elem(b, Num(i)))) } } : TRUE
Safe_Contr_dotProduct(a, b) == Safe_Contr_dotProductLoop(a, b, 0, Num(0))

\* the products Safe_Contr.u tests, one for each control output
Safe_Contr_products(rbt, momentum) ==
    [curU \in 1..Len(Robot_controlCoefficient(rbt)) |->
        Safe_Contr_dotProduct(Robot_controlCoefficient(rbt)[curU], momentum)]

\* the control outputs Safe_Contr.u assigns
Safe_Contr_assigned(products) ==
    { curU \in 0..(Len(products) - 1) :
        JSGt(products[curU + 1], Num(0)) \/ JSLt(products[curU + 1], Num(0)) }

\* Safe_Contr.u(momentum): u_out starts empty and only the outputs with a
\* non-zero product are assigned, so the array ends at the last one
\* assigned and the outputs skipped before it are undefined
Safe_Contr_u(rbt, maxU, momentum) ==
    CHOOSE u_out \in
        { LET assigned == Safe_Contr_assigned(products)
              length == IF assigned = {} THEN 0
                        ELSE (CHOOSE curU \in assigned :
                                 \A other \in assigned : other <= curU) + 1
          IN  [curU \in 1..length |->
                  IF JSGt(products[curU], Num(0)) THEN maxU
                  ELSE IF JSLt(products[curU], Num(0)) THEN JSNeg(maxU)
                  ELSE Undefined] :
            products \in { Safe_Contr_products(rbt, p) : p \in {momentum} } } : TRUE

Intervention_Contr(safeset, maxU) ==
    [cls |-> "Intervention_Contr", intervening_set |-> safeset, maxU |-> maxU,
     trigger_level |-> Num(0)]
PaletteIntervention_Contr(mySetID, maxU, record) ==
    [cls |-> "PaletteIntervention_Contr", setID |-> mySetID, maxU |-> maxU,
     trigger_level |-> Num(0), record |-> record]

\* Intervention_Contr.u() with the trigger taken at or below the level
Intervention_Contr_u_AtLevel(rbt, trk, ctl) ==
    IF ~JSGt(SafeSetValue(ctl.intervening_set, rbt.states), ctl.trigger_level)
    THEN [u |-> Safe_Contr_u(rbt, ctl.maxU,
                    SafeSetGradV(ctl.intervening_set, rbt.states)),
          tracker |-> trk]
    ELSE Tracker_u(rbt, trk)

\* Intervention_Contr.u(): the control returned and the tracker left behind
Intervention_Contr_u(rbt, trk, ctl) ==
    IF JSLt(SafeSetValue(ctl.intervening_set, rbt.states), ctl.trigger_level)
    THEN [u |-> Safe_Contr_u(rbt, ctl.maxU,
                    SafeSetGradV(ctl.intervening_set, rbt.states)),
          tracker |-> trk]
    ELSE Tracker_u(rbt, trk)

\* PaletteIntervention_Contr.u(), the goal test: the setpoint is within 0.5
\* of the robot on both axes
PaletteIntervention_goalReached(rbt, trk) ==
    LET deltaX == JSSub(Elem(trk.set, Num(0)), Elem(rbt.states, Num(0)))
        deltaY == JSSub(Elem(trk.set, Num(1)), Elem(rbt.states, Num(1)))
    IN  JSLt(MathAbs(deltaX), Rat(1, 2)) /\ JSLt(MathAbs(deltaY), Rat(1, 2))

\* PaletteIntervention_Contr.u(), the decision on the masked scape: both
\* the value query and the gradient query push the mask first
PaletteIntervention_Contr_decide(rbt, trk, ctl, obs, destroyed, heap, mask) ==
    LET pushed == maskedObstaclescape_pushMask(heap, mask)
        flags == pushed.arrays[pushed.ref]
    IN  IF JSLt(Obstaclescape_value(obs, destroyed, flags, ctl.setID, rbt.states),
                ctl.trigger_level)
        THEN [u |-> Safe_Contr_u(rbt, ctl.maxU,
                        Obstaclescape_gradV(obs, destroyed, flags, ctl.setID,
                                            rbt.states)),
              tracker |-> trk]
        ELSE Tracker_u(rbt, trk)

---------------------------------------------------------------------------
(* Grids and query states of the grid specification                        *)

\* query coordinates are the quarters k/4, -MaxQuarter <= k <= MaxQuarter
MaxQuarter == 8

Half == Rat(1, 2)
Coords == { Rat(c, 4) : c \in -MaxQuarter..MaxQuarter }

Row(a, b, c) == Arr(<<Num(a), Num(b), Num(c)>>)

\* 2-D data: the scenario of the specification and an asymmetric field
DataScenario == Arr(<<Row(1, 1, 1), Row(1, 0, 1), Row(1, 1, 1)>>)
DataSkew == Arr(<<Row(4, 6, 1), Row(0, 3, 8), Row(5, 2, 7)>>)

Grids1D ==
    { [gmin |-> <<Num(-1)>>, gdx |-> <<dx>>, gN |-> <<Num(3)>>,
       gperiodicity |-> <<p>>, data |-> Row(4, 6, 1)]
      : dx \in {Half, Num(1), Num(2)}, p \in BOOLEAN }

Grids2D ==
    { [gmin |-> <<Num(-1), Num(-1)>>, gdx |-> dxs, gN |-> <<Num(3), Num(3)>>,
       gperiodicity |-> <<p[1], p[2]>>, data |-> dat]
      : dxs \in {<<Num(1), Num(1)>>, <<Num(2), Half>>, <<Half, Num(1)>>},
        p \in BOOLEAN \X BOOLEAN,
        dat \in {DataScenario, DataSkew} }

Reachsets == Grids1D \cup Grids2D

QueryStates(rs) ==
    IF Len(rs.gN) = 1 THEN { <<a>> : a \in Coords }
    ELSE { <<a, b>> : a \in Coords, b \in Coords }

---------------------------------------------------------------------------
(* Grid specification: a loaded grid answers value queries                 *)

NoQuery == [op |-> "none"]

GridIdle == reachset = Undefined /\ gstates = <<>> /\ gq = NoQuery
SetsIdle == sset = Undefined /\ sstates = <<>> /\ sq = NoQuery
ScapeIdle ==
    /\ obstacles = <<>>
    /\ obstacleDestroyed = <<>>
    /\ obstacleUndetected = ScapeArray
    /\ undetectionscape = MaskArray
    /\ arrays = <<<<>>, <<>>>>
    /\ ostates = <<>>
    /\ osetID = 0
    /\ oq = NoQuery

ControlIdle ==
    /\ robot = Undefined
    /\ tracker = Undefined
    /\ intervener = Undefined
    /\ clock = Num(0)
    /\ goalSetEvents = <<>>
    /\ ArcadeScore = Num(0)
    /\ uq = NoQuery

InitGrid ==
    /\ reachset \in Reachsets
    /\ gstates \in QueryStates(reachset)
    /\ gq = NoQuery
    /\ SetsIdle
    /\ ScapeIdle
    /\ ControlIdle

\* loaded_SafeSet.value(states)
GridValue ==
    /\ gq' = [op |-> "value", result |-> value(reachset, gstates)]
    /\ UNCHANGED <<reachset, gstates, setVars, scapeVars, controlVars>>

NextGrid == GridValue

SpecGrid == InitGrid /\ [][NextGrid]_vars

---------------------------------------------------------------------------
(* Composition specification: a union of two safe sets over (position,     *)
(* velocity) answers value and gradient queries                            *)

\* positions and velocities are the halves k/2, -MaxHalf <= k <= MaxHalf
MaxHalf == 4

HalfCoords == { Rat(c, 2) : c \in -MaxHalf..MaxHalf }

ScenarioGrid ==
    [gmin |-> <<Num(-1), Num(-1)>>, gdx |-> <<Num(1), Num(1)>>,
     gN |-> <<Num(3), Num(3)>>, gperiodicity |-> <<FALSE, FALSE>>,
     data |-> DataScenario]

PlanarSets ==
    { dubIntInterval_Set(Num(1)),
      DoubleIntegrator_SafeSet(Num(1), Num(2), Num(1)),
      DoubleIntegrator_SafeSet(Num(2), Num(0), Half),
      loaded_SafeSet(ScenarioGrid) }

InitSets ==
    /\ sset \in { UnionedSafeSet(a, b) : a \in PlanarSets, b \in PlanarSets }
    /\ sstates \in { <<p, v>> : p \in HalfCoords, v \in HalfCoords }
    /\ sq = NoQuery
    /\ GridIdle
    /\ ScapeIdle
    /\ ControlIdle

\* sset.value(states)
SetValue ==
    /\ sq' = [op |-> "value", result |-> SafeSetValue(sset, sstates)]
    /\ UNCHANGED <<sset, sstates, gridVars, scapeVars, controlVars>>

\* sset.gradV(states)
SetGradV ==
    /\ sq' = [op |-> "gradV", result |-> SafeSetGradV(sset, sstates)]
    /\ UNCHANGED <<sset, sstates, gridVars, scapeVars, controlVars>>

NextSets == SetValue \/ SetGradV

SpecSets == InitSets /\ [][NextSets]_vars

---------------------------------------------------------------------------
(* Scape specification: an Obstaclescape of two obstacles wrapped in a     *)
(* maskedObstaclescape; the mask is resampled, obstacles get destroyed,    *)
(* and both scapes are queried                                             *)

BoxPalette ==
    SafeSetPalette(<<
        twoTwo(DoubleIntegrator_SafeSet(Num(1), Num(0), Num(1)),
               DoubleIntegrator_SafeSet(Num(1), Num(0), Num(1))),
        twoTwo(dubIntInterval_Set(Num(2)), dubIntInterval_Set(Num(2))) >>)

RoundPalette == SafeSetPalette(<<dubinsCircle_Set(Num(2)), dubinsCircle_Set(Num(3))>>)

BoxScape ==
    << BoxObstacle(Num(0), Num(0), Num(1), Num(1), BoxPalette),
       BoxObstacle(Num(5), Num(5), Num(1), Num(1), BoxPalette) >>

RoundScape ==
    << RoundObstacle(Num(0), Num(0), Num(2), Half, RoundPalette),
       RoundObstacle(Num(5), Num(5), Num(2), Half, RoundPalette) >>

ScapeXs == {Num(0), Rat(5, 2), Num(150)}
ScapeYs == {Num(0), Rat(5, 2), Num(-150)}

ScapeStates(obs) ==
    IF obs = BoxScape
    THEN { <<x, vx, y, Num(0)>> : x \in ScapeXs, vx \in {Num(0), Num(1)}, y \in ScapeYs }
    ELSE { <<x, y, Num(0)>> : x \in ScapeXs, y \in ScapeYs }

FlagArrays(obs) == [1..Len(obs) -> BOOLEAN]

\* new maskedObstaclescape(new Obstaclescape(_obstacles)): every obstacle
\* accessible in the wrapped scape, the mask drawn by rerandomizeUndetection
InitScape ==
    /\ obstacles \in {BoxScape, RoundScape}
    /\ obstacleDestroyed = [obNum \in 1..Len(obstacles) |-> FALSE]
    /\ obstacleUndetected = ScapeArray
    /\ undetectionscape = MaskArray
    /\ \E mask \in FlagArrays(obstacles) :
           arrays = <<[obNum \in 1..Len(obstacles) |-> FALSE], mask>>
    /\ ostates \in ScapeStates(obstacles)
    /\ osetID \in {0, 1}
    /\ oq = NoQuery
    /\ GridIdle
    /\ SetsIdle
    /\ ControlIdle

scapeInputs == <<obstacles, ostates, osetID>>

\* maskedObstaclescape.rerandomizeUndetection(): each entry of the mask is
\* overwritten in place with the outcome of random() < 0.8
rerandomizeUndetection ==
    /\ \E mask \in FlagArrays(obstacles) :
           arrays' = [arrays EXCEPT ![undetectionscape] = mask]
    /\ oq' = [op |-> "rerandomizeUndetection"]
    /\ UNCHANGED <<obstacleDestroyed, obstacleUndetected, undetectionscape, scapeInputs, gridVars, setVars,
                   controlVars>>

\* the caller marks obstacle obNum destroyed
DestroyObstacle(obNum) ==
    /\ obstacleDestroyed[obNum + 1] = FALSE
    /\ obstacleDestroyed' = [obstacleDestroyed EXCEPT ![obNum + 1] = TRUE]
    /\ oq' = [op |-> "destroy", obNum |-> obNum]
    /\ UNCHANGED <<obstacleUndetected, undetectionscape, arrays, scapeInputs, gridVars, setVars,
                   controlVars>>

\* Obstaclescape.value(setID, states)
ScapeValue ==
    /\ oq' = [op |-> "Obstaclescape.value",
              result |-> Obstaclescape_value(obstacles, obstacleDestroyed,
                             arrays[obstacleUndetected], osetID, ostates)]
    /\ UNCHANGED <<obstacleDestroyed, obstacleUndetected, undetectionscape, arrays,
                   scapeInputs, gridVars, setVars,
                   controlVars>>

\* Obstaclescape.gradV(setID, states)
ScapeGradV ==
    /\ oq' = [op |-> "Obstaclescape.gradV",
              result |-> Obstaclescape_gradV(obstacles, obstacleDestroyed,
                             arrays[obstacleUndetected], osetID, ostates)]
    /\ UNCHANGED <<obstacleDestroyed, obstacleUndetected, undetectionscape, arrays,
                   scapeInputs, gridVars, setVars,
                   controlVars>>

\* Obstaclescape.collisionSetValue(states)
ScapeCollisionSetValue ==
    /\ oq' = [op |-> "Obstaclescape.collisionSetValue",
              result |-> Obstaclescape_collisionSetValue(obstacles, obstacleDestroyed,
                             arrays[obstacleUndetected], ostates)]
    /\ UNCHANGED <<obstacleDestroyed, obstacleUndetected, undetectionscape, arrays,
                   scapeInputs, gridVars, setVars,
                   controlVars>>

\* the first statement of the masked queries: the mask is copied into the
\* wrapped scape
PushMask ==
    LET pushed == maskedObstaclescape_pushMask(arrays, undetectionscape)
    IN  /\ arrays' = pushed.arrays
        /\ obstacleUndetected' = pushed.ref

\* maskedObstaclescape.value(setID, states)
MaskedValue ==
    /\ PushMask
    /\ oq' = [op |-> "maskedObstaclescape.value",
              result |-> Obstaclescape_value(obstacles, obstacleDestroyed,
                             arrays'[obstacleUndetected'], osetID, ostates)]
    /\ UNCHANGED <<obstacleDestroyed, undetectionscape, scapeInputs, gridVars, setVars,
                   controlVars>>

\* maskedObstaclescape.gradV(setID, states)
MaskedGradV ==
    /\ PushMask
    /\ oq' = [op |-> "maskedObstaclescape.gradV",
              result |-> Obstaclescape_gradV(obstacles, obstacleDestroyed,
                             arrays'[obstacleUndetected'], osetID, ostates)]
    /\ UNCHANGED <<obstacleDestroyed, undetectionscape, scapeInputs, gridVars, setVars,
                   controlVars>>

\* maskedObstaclescape.collisionSetValue(states)
MaskedCollisionSetValue ==
    /\ PushMask
    /\ oq' = [op |-> "maskedObstaclescape.collisionSetValue",
              result |-> Obstaclescape_collisionSetValue(obstacles, obstacleDestroyed,
                             arrays'[obstacleUndetected'], ostates)]
    /\ UNCHANGED <<obstacleDestroyed, undetectionscape, scapeInputs, gridVars, setVars,
                   controlVars>>

NextScape ==
    \/ rerandomizeUndetection
    \/ \E obNum \in 0..(Len(obstacles) - 1) : DestroyObstacle(obNum)
    \/ ScapeValue
    \/ ScapeGradV
    \/ ScapeCollisionSetValue
    \/ MaskedValue
    \/ MaskedGradV
    \/ MaskedCollisionSetValue

SpecScape == InitScape /\ [][NextScape]_vars

---------------------------------------------------------------------------
(* Control specification: the main loop ticks an intervention controller   *)
(* and its robot: a QuadrotorRobot under an Intervention_Contr over a      *)
(* twoTwo set with PD trackers, or a DubinsRobot under a                   *)
(* PaletteIntervention_Contr over a masked scape of round obstacles with a *)
(* Dubins_Contr tracker                                                    *)

\* the clock stops the loop at MaxClock
MaxClock == 2

goalX == Num(1)
goalY == Num(-4)
Umax == Num(1)

\* delT of a timer tick: 250 ms and 500 ms between two calls
TickLengths == {Rat(1, 2), Num(1)}

TriggerLevels == {Num(0), Rat(1, 2)}

\* the y coordinates graphics.mapper.randomStateXY() is sampled at
GoalYs == {Num(-4), Num(3)}

QuadrotorStarts ==
    { <<Num(-6), Num(0), Num(3), Num(0)>>,
      <<Num(-1), Num(1), Num(1), Num(0)>>,
      <<Num(-1), Num(1), Num(0), Num(0)>>,
      <<Num(0), Num(0), Num(-1), Num(1)>>,
      <<Num(-3), Num(2), Num(0), Num(-1)>> }

DubinsStarts ==
    { <<Num(-4), Num(3), Num(0)>>,
      <<Num(-2), Num(0), Num(0)>>,
      <<Num(-1), Num(0), Rat(1, 2)>>,
      <<Rat(-5, 2), Num(-4), Num(0)>>,
      <<Rat(3, 4), Rat(-17, 4), Num(3)>> }

InterveningSet ==
    twoTwo(DoubleIntegrator_SafeSet(Num(1), Num(0), Num(1)),
           DoubleIntegrator_SafeSet(Num(1), Num(0), Num(1)))

InitQuadrotor ==
    /\ robot \in { QuadrotorRobot(initial_state) : initial_state \in QuadrotorStarts }
    /\ tracker = Concat_Contr(<<PD_Contr(goalX, 0), PD_Contr(goalY, 2)>>)
    /\ intervener \in { [Intervention_Contr(InterveningSet, Umax)
                            EXCEPT !.trigger_level = level] : level \in TriggerLevels }
    /\ clock = Num(0)
    /\ goalSetEvents = <<>>
    /\ ArcadeScore = Num(0)
    /\ uq = NoQuery
    /\ ScapeIdle

InitDubins ==
    /\ robot \in { DubinsRobot(initial_state, Num(3)) : initial_state \in DubinsStarts }
    /\ tracker = Dubins_Contr(Umax, <<goalX, goalY>>)
    /\ intervener \in { [PaletteIntervention_Contr(0, Umax, record)
                            EXCEPT !.trigger_level = level] :
                          record \in BOOLEAN, level \in TriggerLevels }
    /\ obstacles = RoundScape
    /\ obstacleDestroyed = [obNum \in 1..Len(obstacles) |-> FALSE]
    /\ obstacleUndetected = ScapeArray
    /\ undetectionscape = MaskArray
    /\ \E mask \in FlagArrays(obstacles) :
           arrays = <<[obNum \in 1..Len(obstacles) |-> FALSE], mask>>
    /\ ostates = <<>>
    /\ osetID = 0
    /\ oq = NoQuery
    /\ clock = Num(0)
    /\ goalSetEvents =
           IF intervener.record
           THEN << [robotID |-> Undefined, undetection |-> arrays[undetectionscape],
                    goal |-> tracker.set, timestamp |-> clock] >>
           ELSE <<>>
    /\ ArcadeScore = Num(0)
    /\ uq = NoQuery

InitControl ==
    /\ InitQuadrotor \/ InitDubins
    /\ GridIdle
    /\ SetsIdle

\* one call of the main loop's timer function with an Intervention_Contr:
\* the clock advances, the controller is asked for u and the robot updated
InterventionTick(delT) ==
    /\ intervener.cls = "Intervention_Contr"
    /\ JSLt(clock, Num(MaxClock))
    /\ \E decided \in {Intervention_Contr_u(robot, tracker, intervener)} :
           /\ tracker' = decided.tracker
           /\ robot' = Robot_update(robot, delT, decided.u)
           /\ uq' = [op |-> "tick", u |-> decided.u]
    /\ clock' = JSAdd(clock, delT)
    /\ UNCHANGED <<intervener, goalSetEvents, ArcadeScore, scapeVars, gridVars, setVars>>

\* a recorder that is written on every tick
PaletteIntervention_recordedEveryTick(events, ctl, reached, mask, newGoal, timestamp) ==
    IF ctl.record
    THEN Append(events, [robotID |-> Undefined, undetection |-> mask,
                         goal |-> newGoal, timestamp |-> timestamp])
    ELSE events

\* PaletteIntervention_Contr.u(), the recorder: record.goalSetEvents after
\* the goal test; the event holds a copy of the mask just resampled
PaletteIntervention_recorded(events, ctl, reached, mask, newGoal, timestamp) ==
    IF reached /\ ctl.record
    THEN Append(events, [robotID |-> Undefined, undetection |-> mask,
                         goal |-> newGoal, timestamp |-> timestamp])
    ELSE events

\* one call of the main loop's timer function with a
\* PaletteIntervention_Contr: the clock advances; a reached goal is swapped
\* for a new one, the mask resampled and the change recorded; then the
\* controller decides on u and the robot is updated
PaletteTick(delT) ==
    /\ intervener.cls = "PaletteIntervention_Contr"
    /\ JSLt(clock, Num(MaxClock))
    /\ \E reached \in {PaletteIntervention_goalReached(robot, tracker)} :
       \E newGoalY \in IF reached THEN GoalYs ELSE {Elem(tracker.set, Num(1))},
          mask \in IF reached THEN FlagArrays(obstacles) ELSE {arrays[undetectionscape]} :
          LET newGoal == <<JSMul(Elem(tracker.set, Num(0)), Num(-1)), newGoalY>>
              retargeted == IF reached THEN [tracker EXCEPT !.set = newGoal] ELSE tracker
              resampled == [arrays EXCEPT ![undetectionscape] = mask]
              pushed == maskedObstaclescape_pushMask(resampled, undetectionscape)
          IN  \E decided \in {PaletteIntervention_Contr_decide(robot, retargeted,
                                  intervener, obstacles, obstacleDestroyed, resampled,
                                  undetectionscape)} :
              /\ tracker' = decided.tracker
              /\ arrays' = pushed.arrays
              /\ obstacleUndetected' = pushed.ref
              /\ ArcadeScore' = IF reached /\ TruthyNumber(ArcadeScore)
                                THEN JSAdd(ArcadeScore, Num(20)) ELSE ArcadeScore
              /\ goalSetEvents' =
                     PaletteIntervention_recorded(goalSetEvents, intervener, reached,
                                                  mask, newGoal, JSAdd(clock, delT))
              /\ robot' = Robot_update(robot, delT, decided.u)
              /\ uq' = [op |-> "tick", u |-> decided.u]
    /\ clock' = JSAdd(clock, delT)
    /\ UNCHANGED <<intervener, obstacles, obstacleDestroyed, undetectionscape,
                   ostates, osetID, oq, gridVars, setVars>>

\* the keydown listener: keys 1 and 2 select the set of the palette
KeyDown(key) ==
    /\ intervener.cls = "PaletteIntervention_Contr"
    /\ intervener' = [intervener EXCEPT !.setID = key - 49]
    /\ uq' = [op |-> "keydown", key |-> key]
    /\ UNCHANGED <<robot, tracker, clock, goalSetEvents, ArcadeScore, scapeVars,
                   gridVars, setVars>>

NextControl ==
    \/ \E delT \in TickLengths : InterventionTick(delT)
    \/ \E delT \in TickLengths : PaletteTick(delT)
    \/ \E key \in {49, 50} : KeyDown(key)

SpecControl == InitControl /\ [][NextControl]_vars

---------------------------------------------------------------------------
(* Page specification: interactiveDubins.js as wired.  The palette         *)
(* dubinsCircles (held in sset) is a LearnedPalette whose loaded_SafeSets   *)
(* fetch their grids asynchronously; the timer ticks a                     *)
(* PaletteIntervention_Contr over that palette from the start, and keys 1  *)
(* to 6 select the set.  An exception thrown inside the timer function     *)
(* ends that call: the clock has advanced, the robot is not updated.       *)

\* the grid a fetch delivers: x and y clamped, the heading periodic
DubinsData ==
    Arr(<< Arr(<< Arr(<<Num(-1), Num(-2)>>), Arr(<<Num(2), Num(1)>>) >>),
           Arr(<< Arr(<<Num(1), Num(-1)>>), Arr(<<Num(3), Num(2)>>) >>) >>)

DubinsGrid ==
    [gmin |-> <<Num(-4), Num(-4), Num(-4)>>, gdx |-> <<Num(4), Num(4), Num(4)>>,
     gN |-> <<Num(2), Num(2), Num(2)>>, gperiodicity |-> <<FALSE, FALSE, TRUE>>,
     data |-> DubinsData]

\* new LearnedPalette(filename): six loaded_SafeSets, none loaded yet
LearnedPalette ==
    SafeSetPalette([setNum \in 1..6 |-> loaded_SafeSet(Undefined)])

\* whether the object the controller holds as intervening_sets has a
\* rerandomizeUndetection method: a maskedObstaclescape has, a palette has not
HasRerandomizeUndetection(sets) == sets.cls = "maskedObstaclescape"

\* PaletteIntervention_Contr.u() over a palette: the tracker left behind,
\* whether the goal was reached, whether the call threw, whether the
\* safety value was queried and on a loaded set, and the control returned
PaletteIntervention_Contr_u(rbt, trk, ctl, palette, newGoal) ==
    LET reached == PaletteIntervention_goalReached(rbt, trk)
        retargeted == IF reached THEN [trk EXCEPT !.set = newGoal] ELSE trk
        inPalette == ctl.setID \in 0..(Len(palette.safesets) - 1)
        assigned == inPalette /\ palette.safesets[ctl.setID + 1].reachset # Undefined
        thrown == [tracker |-> retargeted, reached |-> reached, threw |-> TRUE,
                   queried |-> FALSE, assigned |-> assigned, u |-> Undefined]
    IN  IF reached /\ ~HasRerandomizeUndetection(palette) THEN thrown
        ELSE LET v == SafeSetPalette_value(palette, ctl.setID, rbt.states)
                 asked == [thrown EXCEPT !.queried = inPalette]
             IN  IF v = TypeError THEN asked
                 ELSE IF JSLt(v, ctl.trigger_level)
                 THEN LET partials == gradV2(palette.safesets[ctl.setID + 1].reachset,
                                             rbt.states)
                      IN  IF \E x \in 1..Len(rbt.states) : partials[x] = TypeError
                          THEN asked
                          ELSE [asked EXCEPT !.threw = FALSE,
                                   !.u = Safe_Contr_u(rbt, ctl.maxU,
                                             SafeSetPalette_gradV(palette, ctl.setID,
                                                                  rbt.states))]
                 ELSE LET tracked == Tracker_u(rbt, retargeted)
                      IN  [asked EXCEPT !.threw = FALSE, !.u = tracked.u,
                                        !.tracker = tracked.tracker]

\* the page is followed until its clock reaches MaxPageClock
MaxPageClock == 1

\* the robot as the page constructs it, and as it is near the goal
PageStarts ==
    { <<Num(-4), Num(3), Num(0)>>,
      <<Rat(3, 4), Rat(-17, 4), Num(3)>> }

InitPage ==
    /\ robot \in { DubinsRobot(initial_state, Num(3)) : initial_state \in PageStarts }
    /\ tracker = Dubins_Contr(Umax, <<goalX, goalY>>)
    /\ intervener = PaletteIntervention_Contr(0, Umax, FALSE)
    /\ sset = LearnedPalette
    /\ sstates = <<>>
    /\ sq = NoQuery
    /\ clock = Num(0)
    /\ goalSetEvents = <<>>
    /\ ArcadeScore = Num(0)
    /\ uq = NoQuery
    /\ GridIdle
    /\ ScapeIdle

\* the fetch of set setNum completes: this.reachset = json
FetchDone(setNum) ==
    /\ sset.safesets[setNum + 1].reachset = Undefined
    /\ sset' = [sset EXCEPT !.safesets[setNum + 1].reachset = DubinsGrid]
    /\ uq' = [op |-> "fetch", setNum |-> setNum]
    /\ UNCHANGED <<robot, tracker, intervener, clock, goalSetEvents, ArcadeScore,
                   sstates, sq, gridVars, scapeVars>>

\* one call of the timer function of the page
PageTick(delT) ==
    /\ JSLt(clock, Num(MaxPageClock))
    /\ \E newGoalY \in IF PaletteIntervention_goalReached(robot, tracker)
                       THEN GoalYs ELSE {Elem(tracker.set, Num(1))} :
       \E called \in {PaletteIntervention_Contr_u(robot, tracker, intervener, sset,
                          <<JSMul(Elem(tracker.set, Num(0)), Num(-1)), newGoalY>>)} :
           /\ tracker' = called.tracker
           /\ robot' = IF called.threw THEN robot
                       ELSE Robot_update(robot, delT, called.u)
           /\ uq' = [op |-> "tick", reached |-> called.reached,
                     threw |-> called.threw, queried |-> called.queried,
                     assigned |-> called.assigned, u |-> called.u,
                     rerandomized |-> called.reached /\ HasRerandomizeUndetection(sset)]
    /\ clock' = JSAdd(clock, delT)
    /\ UNCHANGED <<intervener, goalSetEvents, ArcadeScore, setVars, gridVars, scapeVars>>

NextPage ==
    \/ \E setNum \in 0..5 : FetchDone(setNum)
    \/ \E delT \in TickLengths : PageTick(delT)
    \/ \E key \in 49..54 : KeyDown(key)

SpecPage == InitPage /\ [][NextPage]_vars

---------------------------------------------------------------------------
(* Palette specification: a SafeSetPalette is asked for the value and the  *)
(* gradient of the entry setID, inside and outside its array               *)

\* the indices asked are -1 .. MaxSetID
MaxSetID == 3

InitPalette ==
    /\ sset \in {BoxPalette, RoundPalette}
    /\ sstates \in ScapeStates(IF sset = BoxPalette THEN BoxScape ELSE RoundScape)
    /\ sq = NoQuery
    /\ GridIdle
    /\ ScapeIdle
    /\ ControlIdle

\* sset.value(setID, states)
PaletteValueQuery(setID) ==
    /\ sq' = [op |-> "SafeSetPalette.value", setID |-> setID,
              result |-> SafeSetPalette_value(sset, setID, sstates)]
    /\ UNCHANGED <<sset, sstates, gridVars, scapeVars, controlVars>>

\* sset.gradV(setID, states)
PaletteGradVQuery(setID) ==
    /\ sq' = [op |-> "SafeSetPalette.gradV", setID |-> setID,
              result |-> SafeSetPalette_gradV(sset, setID, sstates)]
    /\ UNCHANGED <<sset, sstates, gridVars, scapeVars, controlVars>>

NextPalette ==
    \/ \E setID \in -1..MaxSetID : PaletteValueQuery(setID)
    \/ \E setID \in -1..MaxSetID : PaletteGradVQuery(setID)

SpecPalette == InitPalette /\ [][NextPalette]_vars

---------------------------------------------------------------------------
(* Dimension specification: a loaded grid and the obstacles of a scape are *)
(* queried with state vectors shorter than, as long as and longer than     *)
(* their own dimension                                                     *)

\* state vectors have 0 .. MaxStateLen components
MaxStateLen == 4

\* the state vectors of length len over the coordinates 0 and 1/2
RECURSIVE StatesOfLen(_)
StatesOfLen(len) ==
    IF len = 0 THEN {<<>>}
    ELSE { Append(states, c) : states \in StatesOfLen(len - 1), c \in {Num(0), Half} }

InitDims ==
    /\ reachset \in {ScenarioGrid} \cup { rs \in Grids1D : rs.gdx = <<Num(1)>> }
    /\ \E len \in 0..(Len(reachset.gN) + 1) : gstates \in StatesOfLen(len)
    /\ gq = NoQuery
    /\ obstacles \in {BoxScape, RoundScape}
    /\ obstacleDestroyed = [obNum \in 1..Len(obstacles) |-> FALSE]
    /\ obstacleUndetected = ScapeArray
    /\ undetectionscape = MaskArray
    /\ arrays = <<[obNum \in 1..Len(obstacles) |-> FALSE],
                  [obNum \in 1..Len(obstacles) |-> FALSE]>>
    /\ \E len \in 2..MaxStateLen : ostates \in StatesOfLen(len)
    /\ osetID = 0
    /\ oq = NoQuery
    /\ SetsIdle
    /\ ControlIdle

\* obstacles[obNum].value(setID, states)
ObstacleValueQuery(obNum) ==
    /\ oq' = [op |-> "Obstacle.value", obNum |-> obNum,
              result |-> Obstacle_value(obstacles[obNum + 1], osetID, ostates)]
    /\ UNCHANGED <<obstacleDestroyed, obstacleUndetected, undetectionscape, arrays,
                   scapeInputs, gridVars, setVars, controlVars>>

\* obstacles[obNum].collisionSetValue(states)
ObstacleCollisionQuery(obNum) ==
    /\ oq' = [op |-> "Obstacle.collisionSetValue", obNum |-> obNum,
              result |-> Obstacle_collisionSetValue(obstacles[obNum + 1], ostates)]
    /\ UNCHANGED <<obstacleDestroyed, obstacleUndetected, undetectionscape, arrays,
                   scapeInputs, gridVars, setVars, controlVars>>

NextDims ==
    \/ GridValue
    \/ \E obNum \in 0..(Len(obstacles) - 1) : ObstacleValueQuery(obNum)
    \/ \E obNum \in 0..(Len(obstacles) - 1) : ObstacleCollisionQuery(obNum)

SpecDims == InitDims /\ [][NextDims]_vars

---------------------------------------------------------------------------
(* Robot specification: a robot of each kind is stepped by the body of the *)
(* main loop with any control vector and any tick length                   *)

\* delT of a timer tick: 250 ms, and 4 s after the page was suspended
RobotTickLengths == {Rat(1, 2), Num(8)}

\* the robots are stepped until the clock reaches MaxRobotClock
MaxRobotClock == 1

VerticalStarts == { <<Num(3), Num(0)>>, <<Num(0), Num(-1)>>, <<Rat(1, 2), Num(2)>> }

RobotKinds ==
    {Robot}
    \cup { QuadrotorRobot(initial_state) : initial_state \in QuadrotorStarts }
    \cup { VerticalQuadrotorRobot(initial_state) : initial_state \in VerticalStarts }
    \cup { DubinsRobot(initial_state, Num(3)) : initial_state \in DubinsStarts }

\* the control vectors handed to a robot: one output of -Umax, 0 or Umax
\* for each row of its control coefficient, or fewer
ControlVectors(rbt) ==
    LET outputs == {JSNeg(Umax), Num(0), Umax}
    IN  IF Len(Robot_controlCoefficient(rbt)) = 2
        THEN {<<>>} \cup { <<a>> : a \in outputs } \cup { <<a, b>> : a \in outputs, b \in outputs }
        ELSE {<<>>} \cup { <<a>> : a \in outputs }

InitRobots ==
    /\ robot \in RobotKinds
    /\ tracker = Undefined
    /\ intervener = Undefined
    /\ clock = Num(0)
    /\ goalSetEvents = <<>>
    /\ ArcadeScore = Num(0)
    /\ uq = NoQuery
    /\ GridIdle
    /\ SetsIdle
    /\ ScapeIdle

\* clock += delT; robot.update(delT, u)
RobotUpdate(delT, u) ==
    /\ JSLt(clock, Num(MaxRobotClock))
    /\ clock' = JSAdd(clock, delT)
    /\ robot' = Robot_update(robot, delT, u)
    /\ uq' = [op |-> "update", delT |-> delT, u |-> u]
    /\ UNCHANGED <<tracker, intervener, goalSetEvents, ArcadeScore, gridVars, setVars,
                   scapeVars>>

NextRobots == \E delT \in RobotTickLengths : \E u \in ControlVectors(robot) : RobotUpdate(delT, u)

SpecRobots == InitRobots /\ [][NextRobots]_vars

---------------------------------------------------------------------------
(* Decoupled specification: a twoTwo of two planar sets answers value and  *)
(* gradV queries at 4-dimensional states                                   *)

DecoupledCoords == {Rat(-3, 2), Num(0), Half, Num(2)}

\* new twoTwo(_A, _B) over the planar sets, and a joint state
InitDecoupled ==
    /\ sset \in { twoTwo(a, b) : a \in PlanarSets, b \in PlanarSets }
    /\ sstates \in { <<p, v, q, w>> : p \in DecoupledCoords, v \in DecoupledCoords,
                                       q \in DecoupledCoords, w \in DecoupledCoords }
    /\ sq = NoQuery
    /\ GridIdle
    /\ ScapeIdle
    /\ ControlIdle

SpecDecoupled == InitDecoupled /\ [][NextSets]_vars

---------------------------------------------------------------------------
(* Obstacle specification: the obstacles of a scape answer value, gradV    *)
(* and collisionSetValue queries at global states of their own system      *)

ObstacleXs == {Num(0), Rat(5, 2), Num(5), Rat(15, 2)}

\* global states: [x, vx, y, vy] for the box scape, [x, y, heading] for the
\* round scape
ObstacleStates(obs) ==
    IF obs = BoxScape
    THEN { <<x, vx, y, vy>> : x \in ObstacleXs, vx \in {Num(0), Num(1)},
                              y \in ObstacleXs, vy \in {Num(0), Num(-1)} }
    ELSE { <<x, y, heading>> : x \in ObstacleXs, y \in ObstacleXs,
                               heading \in {Num(0), Half} }

InitObstacle ==
    /\ obstacles \in {BoxScape, RoundScape}
    /\ obstacleDestroyed = [obNum \in 1..Len(obstacles) |-> FALSE]
    /\ obstacleUndetected = ScapeArray
    /\ undetectionscape = MaskArray
    /\ arrays = <<[obNum \in 1..Len(obstacles) |-> FALSE],
                  [obNum \in 1..Len(obstacles) |-> FALSE]>>
    /\ ostates \in ObstacleStates(obstacles)
    /\ osetID \in {0, 1}
    /\ oq = NoQuery
    /\ GridIdle
    /\ SetsIdle
    /\ ControlIdle

\* obstacles[obNum].gradV(setID, states)
ObstacleGradVQuery(obNum) ==
    /\ oq' = [op |-> "Obstacle.gradV", obNum |-> obNum,
              result |-> Obstacle_gradV(obstacles[obNum + 1], osetID, ostates)]
    /\ UNCHANGED <<obstacleDestroyed, obstacleUndetected, undetectionscape, arrays,
                   scapeInputs, gridVars, setVars, controlVars>>

NextObstacle ==
    \/ \E obNum \in 0..(Len(obstacles) - 1) : ObstacleValueQuery(obNum)
    \/ \E obNum \in 0..(Len(obstacles) - 1) : ObstacleGradVQuery(obNum)
    \/ \E obNum \in 0..(Len(obstacles) - 1) : ObstacleCollisionQuery(obNum)

SpecObstacle == InitObstacle /\ [][NextObstacle]_vars

---------------------------------------------------------------------------
(* Gradient specification: a loaded grid answers value and gradV queries   *)

\* loaded_SafeSet.gradV(states)
GridGradV ==
    /\ gq' = [op |-> "gradV", result |-> loaded_gradV(reachset, gstates)]
    /\ UNCHANGED <<reachset, gstates, setVars, scapeVars, controlVars>>

NextGradient == GridValue \/ GridGradV

\* the 1-D grids and the 2-D grids over the asymmetric field
GradientGrids ==
    Grids1D \cup { rs \in Grids2D : rs.data = DataSkew /\ rs.gdx # <<Half, Num(1)>> }

GradientStates(rs) ==
    IF Len(rs.gN) = 1 THEN { <<a>> : a \in HalfCoords }
    ELSE { <<a, b>> : a \in HalfCoords, b \in HalfCoords }

InitGradient ==
    /\ reachset \in GradientGrids
    /\ gstates \in GradientStates(reachset)
    /\ gq = NoQuery
    /\ SetsIdle
    /\ ScapeIdle
    /\ ControlIdle

SpecGradient == InitGradient /\ [][NextGradient]_vars

---------------------------------------------------------------------------
(* Index specification: a loaded grid answers nearIndices with either      *)
(* value of gridwrap, and gradV1                                           *)

\* loaded_SafeSet.nearIndices(_states, gridwrap)
NearIndices(gridwrap) ==
    /\ gq' = [op |-> "nearIndices", gridwrap |-> gridwrap,
              result |-> nearIndices(reachset, gstates, gridwrap)]
    /\ UNCHANGED <<reachset, gstates, setVars, scapeVars, controlVars>>

\* loaded_SafeSet.gradV1(states)
GridGradV1 ==
    /\ gq' = [op |-> "gradV1", result |-> gradV1(reachset, gstates)]
    /\ UNCHANGED <<reachset, gstates, setVars, scapeVars, controlVars>>

NextIndices ==
    \/ \E gridwrap \in BOOLEAN : NearIndices(gridwrap)
    \/ GridGradV1

SpecIndices == InitGradient /\ [][NextIndices]_vars

---------------------------------------------------------------------------
(* Frame specification: the state array of the robot is handed, by         *)
(* reference, to the queries of a loaded set, of the obstacles and of a    *)
(* masked scape and to the controller, and the robot is stepped.  A query  *)
(* is modelled by the arrays it holds when it returns: the caller's array  *)
(* and the clones it made of it.                                           *)

\* Obstacle.offsetStates, the loop: offsetS[curDim] -= this.offset[curDim]
RECURSIVE Obstacle_offsetStatesWrites(_, _, _)
Obstacle_offsetStatesWrites(ob, heap, curDim) ==
    IF curDim >= Len(heap.states) THEN heap
    ELSE Obstacle_offsetStatesWrites(ob,
             [heap EXCEPT !.offsetS[curDim + 1] = JSSub(@, Elem(ob.offset, Num(curDim)))],
             curDim + 1)

\* an offsetStates with let offsetS = states: the loop writes the caller's array
Obstacle_offsetStatesHeapAliased(ob, states) ==
    LET written == Obstacle_offsetStatesWrites(ob, [states |-> states, offsetS |-> states], 0)
    IN  [states |-> written.offsetS, offsetS |-> written.offsetS]

\* Obstacle.offsetStates(states): let offsetS = states.slice(), then the loop
Obstacle_offsetStatesHeap(ob, states) ==
    Obstacle_offsetStatesWrites(ob, [states |-> states, offsetS |-> states], 0)

\* the caller's array after the loop of an Obstaclescape query from obstacle
\* obNum on: every eligible obstacle translates it
RECURSIVE Obstaclescape_statesAfter(_, _, _, _, _)
Obstaclescape_statesAfter(obs, destroyed, undetected, states, obNum) ==
    IF obNum >= Len(obs) THEN states
    ELSE IF destroyed[obNum + 1] = FALSE /\ undetected[obNum + 1] = FALSE
         THEN Obstaclescape_statesAfter(obs, destroyed, undetected,
                  Obstacle_offsetStatesHeap(obs[obNum + 1], states).states, obNum + 1)
         ELSE Obstaclescape_statesAfter(obs, destroyed, undetected, states, obNum + 1)

\* nearIndices(_states, gridwrap): let states = _states.slice(), never written
nearIndicesHeap(rs, callerStates) == [callerStates |-> callerStates, states |-> callerStates]

\* gradV2(states): on every axis statesLow and statesHigh are clones, and
\* the one coordinate is written in the clones
gradV2Heap(rs, states) ==
    [states |-> states,
     statesLow |-> [x \in 1..Len(states) |->
                       [states EXCEPT ![x] = JSSub(@, JSDiv(Elem(rs.gdx, Num(x - 1)), Num(2)))]],
     statesHigh |-> [x \in 1..Len(states) |->
                       [states EXCEPT ![x] = JSAdd(@, JSDiv(Elem(rs.gdx, Num(x - 1)), Num(2)))]]]

InitFrame ==
    /\ robot \in { DubinsRobot(initial_state, Num(3)) : initial_state \in DubinsStarts }
    /\ tracker = Dubins_Contr(Umax, <<goalX, goalY>>)
    /\ intervener = Intervention_Contr(loaded_SafeSet(DubinsGrid), Umax)
    /\ clock = Num(0)
    /\ goalSetEvents = <<>>
    /\ ArcadeScore = Num(0)
    /\ uq = NoQuery
    /\ reachset = DubinsGrid
    /\ gstates = <<>>
    /\ gq = NoQuery
    /\ obstacles = RoundScape
    /\ obstacleDestroyed = [obNum \in 1..Len(obstacles) |-> FALSE]
    /\ obstacleUndetected = ScapeArray
    /\ undetectionscape = MaskArray
    /\ arrays = <<[obNum \in 1..Len(obstacles) |-> FALSE],
                  [obNum \in 1..Len(obstacles) |-> FALSE]>>
    /\ ostates = <<>>
    /\ osetID = 0
    /\ oq = NoQuery
    /\ SetsIdle

\* obstacles[obNum].offsetStates(robot.states)
FrameOffsetStates(obNum) ==
    /\ \E heap \in {Obstacle_offsetStatesHeap(obstacles[obNum + 1], robot.states)} :
           /\ robot' = [robot EXCEPT !.states = heap.states]
           /\ uq' = [op |-> "Obstacle.offsetStates", obNum |-> obNum,
                     result |-> heap.offsetS]
    /\ UNCHANGED <<tracker, intervener, clock, goalSetEvents, ArcadeScore, gridVars,
                   setVars, scapeVars>>

\* a query of the masked scape with robot.states: the mask is pushed, the
\* loop over the obstacles runs
FrameScapeQuery ==
    /\ \E pushed \in {maskedObstaclescape_pushMask(arrays, undetectionscape)} :
           /\ arrays' = pushed.arrays
           /\ obstacleUndetected' = pushed.ref
           /\ robot' = [robot EXCEPT !.states =
                            Obstaclescape_statesAfter(obstacles, obstacleDestroyed,
                                pushed.arrays[pushed.ref], robot.states, 0)]
    /\ uq' = [op |-> "maskedObstaclescape.value"]
    /\ UNCHANGED <<tracker, intervener, clock, goalSetEvents, ArcadeScore, gridVars,
                   setVars, obstacleDestroyed, undetectionscape, scapeInputs, oq>>

\* nearIndices(robot.states, gridwrap) on the loaded grid
FrameNearIndices(gridwrap) ==
    /\ robot' = [robot EXCEPT !.states =
                     nearIndicesHeap(reachset, robot.states).callerStates]
    /\ uq' = [op |-> "nearIndices", gridwrap |-> gridwrap,
              result |-> nearIndices(reachset, robot.states, gridwrap)]
    /\ UNCHANGED <<tracker, intervener, clock, goalSetEvents, ArcadeScore, gridVars,
                   setVars, scapeVars>>

\* intervener.u(): value(robot.states), then gradV(robot.states) or the
\* tracker's u()
FrameControllerU ==
    /\ \E decided \in {Intervention_Contr_u(robot, tracker, intervener)} :
           /\ tracker' = decided.tracker
           /\ uq' = [op |-> "u", u |-> decided.u]
    /\ robot' = [robot EXCEPT !.states =
                     gradV2Heap(reachset,
                         nearIndicesHeap(reachset, robot.states).callerStates).states]
    /\ UNCHANGED <<intervener, clock, goalSetEvents, ArcadeScore, gridVars, setVars,
                   scapeVars>>

\* robot.update(delT, u) with the u the controller returned
FrameUpdate(delT) ==
    /\ uq.op = "u"
    /\ RobotUpdate(delT, uq.u)

NextFrame ==
    \/ \E obNum \in 0..(Len(obstacles) - 1) : FrameOffsetStates(obNum)
    \/ FrameScapeQuery
    \/ \E gridwrap \in BOOLEAN : FrameNearIndices(gridwrap)
    \/ FrameControllerU
    \/ \E delT \in RobotTickLengths : FrameUpdate(delT)

SpecFrame == InitFrame /\ [][NextFrame]_vars

---------------------------------------------------------------------------
(* Display specification: the scape specification with the drawing         *)
(* methods; a drawing method is modelled by the obstacles it draws         *)

\* Obstaclescape.render(): the obstacles whose render() is called
Obstaclescape_render(obs, destroyed) ==
    { obNum \in 0..(Len(obs) - 1) : destroyed[obNum + 1] = FALSE }

\* Obstaclescape.displayGrid(...): the obstacles whose displayGrid is called
Obstaclescape_displayGrid(obs, destroyed, undetected) ==
    { obNum \in 0..(Len(obs) - 1) :
        destroyed[obNum + 1] = FALSE /\ undetected[obNum + 1] = FALSE }

\* Obstaclescape.render() and, passed through, maskedObstaclescape.render()
ScapeRender(masked) ==
    /\ oq' = [op |-> IF masked THEN "maskedObstaclescape.render"
                     ELSE "Obstaclescape.render",
              result |-> Obstaclescape_render(obstacles, obstacleDestroyed)]
    /\ UNCHANGED <<obstacleDestroyed, obstacleUndetected, undetectionscape, arrays,
                   scapeInputs, gridVars, setVars, controlVars>>

\* Obstaclescape.displayGrid(...) and maskedObstaclescape.displayGrid(...),
\* which passes the call on as it is
ScapeDisplayGrid(masked) ==
    /\ oq' = [op |-> IF masked THEN "maskedObstaclescape.displayGrid"
                     ELSE "Obstaclescape.displayGrid",
              result |-> Obstaclescape_displayGrid(obstacles, obstacleDestroyed,
                             arrays[obstacleUndetected])]
    /\ UNCHANGED <<obstacleDestroyed, obstacleUndetected, undetectionscape, arrays,
                   scapeInputs, gridVars, setVars, controlVars>>

NextDisplay ==
    \/ NextScape
    \/ \E masked \in BOOLEAN : ScapeRender(masked)
    \/ \E masked \in BOOLEAN : ScapeDisplayGrid(masked)

SpecDisplay == InitScape /\ [][NextDisplay]_vars

---------------------------------------------------------------------------
(* Reference notions the grid claims are stated with                       *)

\* the grid coordinate of index i along axis x (1-based axis)
GridPoint(rs, x, i) == JSAdd(rs.gmin[x], JSMul(Num(i), rs.gdx[x]))

\* the index of the last grid point at or below coordinate c along axis x
CellOf(rs, x, c) == MathFloor(JSDiv(JSSub(c, rs.gmin[x]), rs.gdx[x])).n

\* the state lies within the grid's bounds on every axis
InsideGrid(rs, states) ==
    \A x \in 1..Len(states) :
        /\ JSGe(states[x], rs.gmin[x])
        /\ JSGe(GridPoint(rs, x, rs.gN[x].n - 1), states[x])

\* every coordinate of the state is a grid point
GridAligned(rs, states) ==
    \A x \in 1..Len(states) : GridPoint(rs, x, CellOf(rs, x, states[x])) = states[x]

NonPeriodic(rs) == \A x \in 1..Len(rs.gN) : ~Truthy(rs.gperiodicity[x])

\* data[i1]...[iD] for in-range indices
RECURSIVE Datum(_, _, _)
Datum(arr, idx, x) ==
    IF x > Len(idx) THEN arr ELSE Datum(arr.e[idx[x] + 1], idx, x + 1)

\* the fraction of the cell the state has covered along axis x, in [0, 1)
CellFraction(rs, states, x) ==
    JSDiv(JSSub(states[x], GridPoint(rs, x, CellOf(rs, x, states[x]))), rs.gdx[x])

\* the weight multilinear interpolation gives the corner `corner` of the cell
RECURSIVE CornerWeight(_, _, _, _)
CornerWeight(rs, states, corner, x) ==
    IF x = 0 THEN Num(1)
    ELSE JSMul(CornerWeight(rs, states, corner, x - 1),
               IF cornerBit(corner, x)
               THEN CellFraction(rs, states, x)
               ELSE JSSub(Num(1), CellFraction(rs, states, x)))

\* the index of corner `corner` of the enclosing cell; a corner of weight 0
\* beyond the last grid point is read at the last grid point
CornerIndex(rs, states, corner) ==
    [x \in 1..Len(states) |->
        LET i == CellOf(rs, x, states[x]) + (IF cornerBit(corner, x) THEN 1 ELSE 0)
        IN  IF i > rs.gN[x].n - 1 THEN rs.gN[x].n - 1 ELSE i]

\* the multilinear interpolation of the 2^D corner data of the enclosing cell
RECURSIVE Multilinear(_, _, _)
Multilinear(rs, states, corner) ==
    IF corner < 0 THEN Num(0)
    ELSE JSAdd(Multilinear(rs, states, corner - 1),
               JSMul(CornerWeight(rs, states, corner, Len(states)),
                     Datum(rs.data, CornerIndex(rs, states, corner), 1)))

\* the state moved by dir (+1 or -1) periods gN*gdx along axis x
ShiftPeriod(rs, states, x, dir) ==
    [states EXCEPT ![x] = JSAdd(states[x], JSMul(Num(dir), JSMul(rs.gN[x], rs.gdx[x])))]

---------------------------------------------------------------------------
(* Claims on the grid value function                                       *)

\* C1: for any positive spacing gdx and any grid-aligned state inside the
\* grid, value(state) equals the stored datum at that grid index exactly.
C1_InterpolationExactness ==
    (gq.op = "value" /\ InsideGrid(reachset, gstates) /\ GridAligned(reachset, gstates))
    => gq.result = Datum(reachset.data,
                         [x \in 1..Len(gstates) |-> CellOf(reachset, x, gstates[x])], 1)

\* C2: for every state inside a non-periodic grid that is not a grid point
\* (strictly inside a cell, or on a grid line along some axes only),
\* value(state) equals the multilinear interpolation of the corner data of
\* the enclosing cell.
C2_MultilinearInterpolation ==
    (/\ gq.op = "value"
     /\ NonPeriodic(reachset)
     /\ InsideGrid(reachset, gstates)
     /\ ~GridAligned(reachset, gstates))
    => gq.result = Multilinear(reachset, gstates, Pow2(Len(gstates)) - 1)

\* C3: along a periodic axis, value(state) equals value of the state moved
\* by plus or minus one period, for every state.
C3_PeriodicWraparound ==
    gq.op = "value"
    => \A x \in 1..Len(gstates) : \A dir \in {-1, 1} :
           Truthy(reachset.gperiodicity[x])
           => value(reachset, ShiftPeriod(reachset, gstates, x, dir)) = gq.result

---------------------------------------------------------------------------
(* Claims on safe-set composition                                          *)

\* the smaller of two numbers
MinOf(a, b) == IF a.n * b.d <= b.n * a.d THEN a ELSE b

\* C9: Union(A,B).value(s) = min(A.value(s), B.value(s)), and
\* Union(A,B).gradV(s) is A's gradient iff A.value(s) < B.value(s) and B's
\* gradient otherwise (ties go to B).
C9_UnionCorrectness ==
    sset # Undefined =>
        LET valueA == SafeSetValue(sset.setA, sstates)
            valueB == SafeSetValue(sset.setB, sstates)
        IN  /\ sq.op = "value" => sq.result = MinOf(valueA, valueB)
            /\ sq.op = "gradV" =>
                   sq.result = IF valueA.n * valueB.d < valueB.n * valueA.d
                               THEN SafeSetGradV(sset.setA, sstates)
                               ELSE SafeSetGradV(sset.setB, sstates)

\* a gradient query on a tie between operands whose gradients differ
C9_Witness ==
    /\ sq.op = "gradV"
    /\ SafeSetValue(sset.setA, sstates) = SafeSetValue(sset.setB, sstates)
    /\ SafeSetGradV(sset.setA, sstates) # SafeSetGradV(sset.setB, sstates)
    /\ sq.result = SafeSetGradV(sset.setB, sstates)

---------------------------------------------------------------------------
(* Claims on the obstacle scape                                            *)

\* the flags the wrapped scape reads
ScapeFlags == arrays[obstacleUndetected]

\* obstacles the safety queries take into account, and those the collision
\* query takes into account
Eligible ==
    { obNum \in 0..(Len(obstacles) - 1) :
        obstacleDestroyed[obNum + 1] = FALSE /\ ScapeFlags[obNum + 1] = FALSE }
Colliding ==
    { obNum \in 0..(Len(obstacles) - 1) :
        obstacleDestroyed[obNum + 1] = FALSE /\ ScapeFlags[obNum + 1] = TRUE }

\* the least of a non-empty set of numbers
LeastOf(S) == CHOOSE v \in S : \A w \in S : ~JSLt(w, v)

EligibleValue(obNum) == Obstacle_value(obstacles[obNum + 1], osetID, ostates)
CollidingValue(obNum) == Obstacle_collisionSetValue(obstacles[obNum + 1], ostates)

\* the first eligible obstacle whose value is the least
Dominant ==
    LET least == LeastOf({ EligibleValue(obNum) : obNum \in Eligible })
    IN  CHOOSE obNum \in Eligible :
            /\ EligibleValue(obNum) = least
            /\ \A other \in Eligible : (EligibleValue(other) = least) => (obNum <= other)

\* C6: Obstaclescape.value(setID, state) is the minimum of Obstacle.value
\* over the obstacles that are neither destroyed nor undetected, and the
\* sentinel 100 when there is no such obstacle.
C6_ScapeValueIsMinimum ==
    oq.op = "Obstaclescape.value" =>
        oq.result = IF Eligible = {} THEN Num(curMinValueInit)
                    ELSE LeastOf({ EligibleValue(obNum) : obNum \in Eligible })

\* C7: whenever some obstacle is eligible, Obstaclescape.gradV returns the
\* gradient of the first eligible obstacle with the least value; so with
\* obstacle 0 destroyed and obstacle 1 eligible it is obstacle 1's gradient.
C7_DominanceConsistency ==
    (oq.op = "Obstaclescape.gradV" /\ Eligible # {}) =>
        oq.result = Obstacle_gradV(obstacles[Dominant + 1], osetID, ostates)

\* C8: whenever some obstacle is undestroyed and undetected,
\* Obstaclescape.collisionSetValue returns (v, k) with v the minimum of
\* Obstacle.collisionSetValue over those obstacles and k one of them that
\* achieves v.
C8_CollisionMinimum ==
    (oq.op = "Obstaclescape.collisionSetValue" /\ Colliding # {}) =>
        /\ oq.result[1] = LeastOf({ CollidingValue(obNum) : obNum \in Colliding })
        /\ \E obNum \in Colliding :
               /\ oq.result[2] = Num(obNum)
               /\ CollidingValue(obNum) = oq.result[1]

\* a step of a masked query: every step of the scape writes the query it
\* served into oq, so the query named there is the one this step served
IsMaskedQuery ==
    oq'.op \in {"maskedObstaclescape.value", "maskedObstaclescape.gradV",
                "maskedObstaclescape.collisionSetValue"}

\* C10: the wrapped scape's flags and the mask are always two arrays; a
\* masked value, gradV or collisionSetValue query leaves the wrapped
\* scape's flags equal to the mask as it was when the query began and
\* returns what the wrapped scape returns under those flags; resampling the
\* mask leaves the wrapped scape's flags as they were.
C10_MaskPushedBeforeQuery ==
    /\ [](obstacleUndetected # undetectionscape)
    /\ [][IsMaskedQuery =>
              (/\ arrays'[obstacleUndetected'] = arrays[undetectionscape]
               /\ arrays'[undetectionscape'] = arrays[undetectionscape])]_vars
    /\ [][(oq'.op = "maskedObstaclescape.value") =>
              (oq'.result = Obstaclescape_value(obstacles, obstacleDestroyed,
                                arrays[undetectionscape], osetID, ostates))]_vars
    /\ [][(oq'.op = "maskedObstaclescape.gradV") =>
              (oq'.result = Obstaclescape_gradV(obstacles, obstacleDestroyed,
                                arrays[undetectionscape], osetID, ostates))]_vars
    /\ [][(oq'.op = "maskedObstaclescape.collisionSetValue") =>
              (oq'.result = Obstaclescape_collisionSetValue(obstacles,
                                obstacleDestroyed, arrays[undetectionscape], ostates))]_vars
    /\ [][(oq'.op = "rerandomizeUndetection") =>
              (arrays'[obstacleUndetected'] = arrays[obstacleUndetected])]_vars

\* a masked collision query answered with a hidden obstacle after the mask
\* had been copied: the wrapped scape's flags are the mask, in another array
C10_Witness ==
    /\ oq.op = "maskedObstaclescape.collisionSetValue"
    /\ obstacleUndetected # undetectionscape
    /\ arrays[obstacleUndetected] = arrays[undetectionscape]
    /\ \E obNum \in 1..Len(obstacles) : arrays[undetectionscape][obNum] = TRUE
    /\ JSLt(oq.result[1], Num(curMinValueInit))

---------------------------------------------------------------------------
(* Claims on the intervention controllers                                  *)

\* the safety value and gradient an Intervention_Contr sees at the state
\* the tick begins in
InterventionValue == SafeSetValue(intervener.intervening_set, robot.states)
InterventionGradient == SafeSetGradV(intervener.intervening_set, robot.states)

\* the safety value and gradient a PaletteIntervention_Contr sees at the
\* state the tick begins in, under the mask the tick leaves
PaletteValue ==
    Obstaclescape_value(obstacles, obstacleDestroyed, arrays'[undetectionscape'],
                        intervener.setID, robot.states)
PaletteGradient ==
    Obstaclescape_gradV(obstacles, obstacleDestroyed, arrays'[undetectionscape'],
                        intervener.setID, robot.states)

IsInterventionTick == \E delT \in TickLengths : InterventionTick(delT)
IsPaletteTick == \E delT \in TickLengths : PaletteTick(delT)

\* the decision law on a tick of either controller
InterventionDecision ==
    IsInterventionTick =>
        (uq'.u = IF JSLt(InterventionValue, intervener.trigger_level)
                 THEN Safe_Contr_u(robot, intervener.maxU, InterventionGradient)
                 ELSE Tracker_u(robot, tracker).u)
PaletteDecision ==
    IsPaletteTick =>
        (uq'.u = IF JSLt(PaletteValue, intervener.trigger_level)
                 THEN Safe_Contr_u(robot, intervener.maxU, PaletteGradient)
                 ELSE Tracker_u(robot, tracker').u)

\* C4: on every tick the control applied is the safe control computed from
\* the safety gradient at the current state iff the safety value at the
\* current state is strictly below trigger_level, and the tracker's control
\* otherwise (so also on equality), whatever the previous ticks chose.
C4_InterventionDecisionLaw == [][InterventionDecision /\ PaletteDecision]_vars

\* a tick of the Intervention_Contr applied an override control: one output
\* of magnitude maxU, where the trackers return two
C4_Witness ==
    /\ uq.op = "tick"
    /\ intervener.cls = "Intervention_Contr"
    /\ uq.u = <<JSNeg(intervener.maxU)>>
    /\ JSGt(clock, Rat(1, 2))

\* the output the sign law gives for a product
SignLaw(dot, maxU) ==
    IF JSGt(dot, Num(0)) THEN maxU
    ELSE IF JSLt(dot, Num(0)) THEN JSNeg(maxU)
    ELSE Num(0)

\* the outputs the sign law gives for a gradient
SignLawOutputs(gradient) ==
    [curU \in 1..Len(Robot_controlCoefficient(robot)) |->
        SignLaw(Safe_Contr_dotProduct(Robot_controlCoefficient(robot)[curU], gradient),
                intervener.maxU)]

InterventionOverrideSigns ==
    (IsInterventionTick /\ JSLt(InterventionValue, intervener.trigger_level)) =>
        \A curU \in 1..Len(Robot_controlCoefficient(robot)) :
            Elem(uq'.u, Num(curU - 1)) = SignLawOutputs(InterventionGradient)[curU]
PaletteOverrideSigns ==
    (IsPaletteTick /\ JSLt(PaletteValue, intervener.trigger_level)) =>
        \A curU \in 1..Len(Robot_controlCoefficient(robot)) :
            Elem(uq'.u, Num(curU - 1)) = SignLawOutputs(PaletteGradient)[curU]

\* C5: on every overriding tick, for every control axis the output is
\* +maxU when the product of the robot's control-coefficient row with the
\* gradient is positive, -maxU when it is negative and the number 0 when it
\* is zero.
C5_BangBangSignLaw == [][InterventionOverrideSigns /\ PaletteOverrideSigns]_vars

---------------------------------------------------------------------------
(* Claims on the page: goal handling and the asynchronous load             *)

\* a step of the timer function of the page: every step writes what it did
\* into uq
IsPageTick == uq'.op = "tick"

\* C11: on every tick that finds the goal within 0.5 of the robot on both
\* axes the tracker gets a new goal, the mask of the scape is resampled and
\* one event is appended to the recorder, and the tick then goes on to its
\* safety decision; on every other tick the goal, the mask and the events
\* are left alone.
C11_GoalReachedHandling ==
    /\ [][(IsPageTick /\ PaletteIntervention_goalReached(robot, tracker)) =>
              (/\ tracker'.set # tracker.set
               /\ uq'.rerandomized
               /\ Len(goalSetEvents') = Len(goalSetEvents) + 1
               /\ goalSetEvents'[Len(goalSetEvents')].goal = tracker'.set
               /\ ~uq'.threw)]_vars
    /\ [][(IsPageTick /\ ~PaletteIntervention_goalReached(robot, tracker)) =>
              (/\ tracker'.set = tracker.set
               /\ ~uq'.rerandomized
               /\ goalSetEvents' = goalSetEvents)]_vars

\* C12: no tick queries the value or the gradient of a loaded_SafeSet whose
\* reachset has not been assigned; were one to, the query throws instead of
\* returning a value.
C12_NoQueryBeforeLoad ==
    /\ (uq.op = "tick" /\ uq.queried) => uq.assigned
    /\ (uq.op = "tick" /\ uq.queried /\ ~uq.assigned) => uq.threw

---------------------------------------------------------------------------
(* Claims on the palette                                                   *)

\* C13: a palette asked for the value or the gradient of entry setID
\* answers with that of its entry setID when setID indexes its array, and
\* throws, answering with no entry's value, when setID is outside it.
C13_PaletteDispatch ==
    /\ sq.op = "SafeSetPalette.value" =>
           IF sq.setID \in 0..(Len(sset.safesets) - 1)
           THEN sq.result = SafeSetValue(sset.safesets[sq.setID + 1], sstates)
           ELSE sq.result = TypeError
    /\ sq.op = "SafeSetPalette.gradV" =>
           IF sq.setID \in 0..(Len(sset.safesets) - 1)
           THEN sq.result = SafeSetGradV(sset.safesets[sq.setID + 1], sstates)
           ELSE sq.result.k = "TypeError"

\* a value query one past the last entry threw
C13_Witness ==
    /\ sq.op = "SafeSetPalette.value"
    /\ sq.setID = Len(sset.safesets)
    /\ sq.result = TypeError

---------------------------------------------------------------------------
(* Claims on state vectors of the wrong length                             *)

\* C14: a value query on a grid with a state vector whose length is not
\* the number of axes of the grid throws, and so does a value or collision
\* query on an obstacle with a state vector whose length is not that of
\* the obstacle's offset.
C14_DimensionMismatchFails ==
    /\ (gq.op = "value" /\ Len(gstates) # Len(reachset.gN)) =>
           gq.result = TypeError
    /\ (oq.op \in {"Obstacle.value", "Obstacle.collisionSetValue"}
           /\ Len(ostates) # Len(obstacles[oq.obNum + 1].offset)) =>
           oq.result = TypeError

---------------------------------------------------------------------------
(* Claims on the analytic sets                                             *)

\* the entry a palette query was dispatched to
AskedEntry == sset.safesets[sq.setID + 1]

\* a gradient query answered by a dubinsCircle_Set at its centre
AtCircleCentre ==
    /\ sq.op = "SafeSetPalette.gradV"
    /\ sq.setID \in 0..(Len(sset.safesets) - 1)
    /\ AskedEntry.cls = "dubinsCircle_Set"
    /\ sstates[1] = Num(0) /\ sstates[2] = Num(0)

\* a gradient query answered by the dubIntInterval_Set of the first
\* subsystem of a twoTwo at the middle of its interval
AtIntervalMiddle ==
    /\ sq.op = "SafeSetPalette.gradV"
    /\ sq.setID \in 0..(Len(sset.safesets) - 1)
    /\ AskedEntry.cls = "twoTwo"
    /\ AskedEntry.setA.cls = "dubIntInterval_Set"
    /\ ~JSLt(twoTwo_valueA(AskedEntry, sstates), twoTwo_valueB(AskedEntry, sstates))
    /\ sstates[1] = Num(0)

\* C15: at the singular point of an analytic set (position zero for a
\* dubinsCircle_Set, coordinate zero for a dubIntInterval_Set) every
\* component of gradV is a finite number.
C15_SingularGradientFinite ==
    /\ AtCircleCentre => \A i \in 1..Len(sq.result) : IsNum(sq.result[i])
    /\ AtIntervalMiddle => (IsNum(sq.result[1]) /\ IsNum(sq.result[2]))

---------------------------------------------------------------------------
(* Claims on the robots                                                    *)

\* a step of robot.update: every step writes its delT and u into uq
IsRobotUpdate == uq'.op = "update"

\* the forward-Euler step of component i, the drift and the control
\* coefficient read at the state before the step
EulerStep(i) ==
    JSAdd(robot.states[i], JSMul(Robot_dynamics(robot, uq'.u, i - 1), uq'.delT))

\* a heading taken down one turn when above PI, then up one turn when
\* below -PI
WrappedOnce(heading) ==
    LET down == IF JSGt(heading, MathPI) THEN JSSub(heading, JSMul(Num(2), MathPI))
                ELSE heading
    IN  IF JSLt(down, JSNeg(MathPI)) THEN JSAdd(down, JSMul(Num(2), MathPI)) ELSE down

\* C16 as stated: one update sets every state component of a robot of any
\* kind to its forward-Euler step, drift and control coefficient evaluated
\* at the state before the update.
C16_ForwardEulerStep ==
    [][IsRobotUpdate =>
          \A i \in 1..Len(robot.states) : robot'.states[i] = EulerStep(i)]_vars

\* C16 amended: one update sets every state component of a robot of any
\* kind to its forward-Euler step, drift and control coefficient evaluated
\* at the state before the update, except that the heading of a
\* DubinsRobot is that step shifted by one turn when the step leaves
\* [-PI, PI].
C16_ForwardEulerStepWrapped ==
    [][IsRobotUpdate =>
          \A i \in 1..Len(robot.states) :
              robot'.states[i] = IF robot.cls = "DubinsRobot" /\ i = 3
                                 THEN WrappedOnce(EulerStep(i))
                                 ELSE EulerStep(i)]_vars

\* a QuadrotorRobot started at (-1, 1) with velocity (1, 0) stepped for half
\* a second under thrust on both axes: the position moved by the velocity
\* before the step, the velocity changed
C16_Witness ==
    /\ uq.op = "update"
    /\ robot.cls = "QuadrotorRobot"
    /\ uq.u = <<Umax, JSNeg(Umax)>>
    /\ clock = Rat(1, 2)
    /\ robot.states = <<Rat(-1, 2), Rat(3, 2), Num(1), Rat(-1, 2)>>

\* C17: after every update of a DubinsRobot the heading lies in (-PI, PI].
C17_HeadingWrapped ==
    (uq.op = "update" /\ robot.cls = "DubinsRobot") =>
        (JSGt(robot.states[3], JSNeg(MathPI)) /\ ~JSGt(robot.states[3], MathPI))

---------------------------------------------------------------------------
(* Claims on the decoupled set                                             *)

\* the values of the two subsystems at their halves of the joint state
SubsystemValueA == SafeSetValue(sset.setA, <<sstates[1], sstates[2]>>)
SubsystemValueB == SafeSetValue(sset.setB, <<sstates[3], sstates[4]>>)

MaxOf(a, b) == IF JSGe(a, b) THEN a ELSE b

\* C18: at every 4-dimensional state twoTwo(A,B).value is the maximum of
\* A's value at entries 0,1 and B's value at entries 2,3, and
\* twoTwo(A,B).gradV is B's gradient in entries 2,3 with zeros in entries
\* 0,1 when A's value is below B's, and otherwise A's gradient in entries
\* 0,1 with zeros in entries 2,3 (ties go to A): the gradient of the
\* subsystem whose value is returned.
C18_DecoupledMaximum ==
    /\ sq.op = "value" => sq.result = MaxOf(SubsystemValueA, SubsystemValueB)
    /\ sq.op = "gradV" =>
          LET gradientA == SafeSetGradV(sset.setA, <<sstates[1], sstates[2]>>)
              gradientB == SafeSetGradV(sset.setB, <<sstates[3], sstates[4]>>)
          IN  IF JSLt(SubsystemValueA, SubsystemValueB)
              THEN /\ sq.result = <<Num(0), Num(0), gradientB[1], gradientB[2]>>
                   /\ twoTwo_value(sset, sstates) = SubsystemValueB
              ELSE /\ sq.result = <<gradientA[1], gradientA[2], Num(0), Num(0)>>
                   /\ twoTwo_value(sset, sstates) = SubsystemValueA

\* a gradient asked where both subsystems have the same value and different
\* gradients: the answer is A's
C18_Witness ==
    /\ sq.op = "gradV"
    /\ SubsystemValueA = SubsystemValueB
    /\ sstates[1] # sstates[3]
    /\ sq.result[1] # Num(0)
    /\ sq.result[3] = Num(0)

---------------------------------------------------------------------------
(* Claims on the obstacles                                                 *)

\* the obstacle a query was put to
AskedObstacle == obstacles[oq.obNum + 1]

\* the global state relative to the asked obstacle: the positions moved by
\* the obstacle's position, the velocities and the heading as they are
RelativeState ==
    IF AskedObstacle.cls = "BoxObstacle"
    THEN <<JSSub(ostates[1], AskedObstacle.offset[1]), ostates[2],
           JSSub(ostates[3], AskedObstacle.offset[3]), ostates[4]>>
    ELSE <<JSSub(ostates[1], AskedObstacle.offset[1]),
           JSSub(ostates[2], AskedObstacle.offset[2]), ostates[3]>>

\* C19: value(setID, state) and gradV(setID, state) of a BoxObstacle or a
\* RoundObstacle are the entry setID of its avoidance palette evaluated at
\* the state minus the offset, the non-positional components unchanged, and
\* collisionSetValue(state) is the collision footprint, not the avoidance
\* set, evaluated at the same translated state.
C19_ObstacleRelativeQueries ==
    /\ oq.op = "Obstacle.value" =>
          oq.result = SafeSetValue(AskedObstacle.avoidSets.safesets[osetID + 1],
                                   RelativeState)
    /\ oq.op = "Obstacle.gradV" =>
          oq.result = SafeSetGradV(AskedObstacle.avoidSets.safesets[osetID + 1],
                                   RelativeState)
    /\ oq.op = "Obstacle.collisionSetValue" =>
          oq.result = SafeSetValue(AskedObstacle.collisionSet, RelativeState)

\* the obstacle at (5, 5) asked for its collision value at a state where
\* the translation changes the answer and the footprint and the avoidance
\* set differ
C19_Witness ==
    /\ oq.op = "Obstacle.collisionSetValue"
    /\ oq.obNum = 1
    /\ oq.result # SafeSetValue(AskedObstacle.collisionSet, ostates)
    /\ oq.result # SafeSetValue(AskedObstacle.avoidSets.safesets[osetID + 1],
                                RelativeState)

---------------------------------------------------------------------------
(* Claims on the gradient of a loaded grid                                 *)

\* the queried state with coordinate a moved by d
Moved(a, d) == [gstates EXCEPT ![a] = JSAdd(gstates[a], d)]

\* the difference of the values half a cell above and half a cell below the
\* state along axis a, over the cell length
CentredDifference(a) ==
    LET half == JSDiv(reachset.gdx[a], Num(2))
        above == value(reachset, Moved(a, half))
        below == value(reachset, Moved(a, JSNeg(half)))
    IN  IF above = TypeError \/ below = TypeError THEN TypeError
        ELSE JSDiv(JSSub(above, below), reachset.gdx[a])

\* C20: loaded_SafeSet.gradV(state) is the centred finite difference: on
\* every axis a its component is (value at the state with coordinate a
\* raised by gdx[a]/2 minus value at the state with coordinate a lowered by
\* gdx[a]/2) / gdx[a], the other coordinates unchanged; gradV1, the
\* difference between the nearest grid points, is not what gradV returns.
C20_CentredDifferenceGradient ==
    gq.op = "gradV" =>
        IF \E a \in 1..Len(gstates) : CentredDifference(a) = TypeError
        THEN gq.result.k = "TypeError"
        ELSE gq.result = [a \in 1..Len(gstates) |-> CentredDifference(a)]

\* a gradient asked inside a cell of a 2-D grid where the difference
\* between the nearest grid points is another vector
C20_Witness ==
    /\ gq.op = "gradV"
    /\ Len(gstates) = 2
    /\ \A a \in 1..2 : CentredDifference(a) # TypeError
    /\ \E a \in 1..2 : gq.result[a] # gradV1(reachset, gstates)[a]
    /\ \E a \in 1..2 : ~JSEq(gq.result[a], Num(0))

---------------------------------------------------------------------------
(* Claims on the indices of a loaded grid                                  *)

\* index lies in [0, gN) of axis x
InGrid(index, x) == JSGe(index, Num(0)) /\ JSLt(index, reachset.gN[x])

\* C21: for either value of the wrap flag every low and every high index
\* nearIndices returns lies in [0, gN[axis]).
C21_IndicesInsideGrid ==
    gq.op = "nearIndices" =>
        \A x \in 1..Len(gstates) :
            InGrid(gq.result.low[x], x) /\ InGrid(gq.result.high[x], x)

\* the queried state with coordinate x brought back to the nearest end of
\* the grid
AtBoundary(x) ==
    LET lowest == reachset.gmin[x]
        highest == indexToState(reachset, JSSub(reachset.gN[x], Num(1)), x - 1)
    IN  IF JSLt(gstates[x], lowest) THEN lowest
        ELSE IF JSGt(gstates[x], highest) THEN highest
        ELSE gstates[x]

\* coordinate x of the queried state lies on a grid line or on the
\* continuation of the grid lines beyond the grid
OnGridLine(x) ==
    LET q == JSDiv(JSSub(gstates[x], reachset.gmin[x]), reachset.gdx[x])
    IN  MathFloor(q) = MathCeil(q)

\* C22: on a loaded grid value(state) is a number for every state of the
\* grid's dimension, however far outside the grid, and a state beyond the
\* boundary on non-periodic axes only, off the virtual grid lines there,
\* has the value of the state with those coordinates at the boundary.
C22_ValueTotalAndClamped ==
    gq.op = "value" =>
        /\ IsNum(gq.result)
        /\ (\A x \in 1..Len(gstates) :
                 AtBoundary(x) # gstates[x] =>
                     (~Truthy(reachset.gperiodicity[x]) /\ ~OnGridLine(x)))
            => gq.result = value(reachset, [x \in 1..Len(gstates) |-> AtBoundary(x)])

\* the index of the grid point below the queried coordinate of a 1-D grid
CellBelow ==
    MathFloor(JSDiv(JSSub(gstates[1], reachset.gmin[1]), reachset.gdx[1]))

\* data[i] of a 1-D grid
Datum1(i) == Elem(reachset.data.e, i)

\* C23: on a 1-D grid, at a state strictly between the adjacent grid points
\* i and i+1, gradV1 is (data[i+1] - data[i]) / dx, and in the wrap cell of
\* a periodic axis it is (data[0] - data[N-1]) / dx.
C23_NeighbourDifference ==
    (gq.op = "gradV1" /\ Len(gstates) = 1 /\ ~OnGridLine(1)) =>
        LET i == CellBelow
            last == JSSub(reachset.gN[1], Num(1))
        IN  /\ (JSGe(i, Num(0)) /\ JSLt(i, last)) =>
                   gq.result[1] = JSDiv(JSSub(Datum1(JSAdd(i, Num(1))), Datum1(i)),
                                        reachset.gdx[1])
            /\ (i = last /\ Truthy(reachset.gperiodicity[1])) =>
                   gq.result[1] = JSDiv(JSSub(Datum1(Num(0)), Datum1(last)),
                                        reachset.gdx[1])

---------------------------------------------------------------------------
(* Claims on the frame of the queries                                      *)

\* C24: the robot state vector is changed by the integration step only: a
\* controller's u(), nearIndices, Obstacle.offsetStates and the queries of
\* the masked scape leave robot.states, the array handed to them, as it
\* was.
C24_OnlyUpdateWritesStates ==
    [][uq'.op # "update" => robot'.states = robot.states]_vars

\* after the robot was stepped, the obstacle at (5, 5) translated the
\* robot's state array: the result differs from the array
C24_Witness ==
    /\ uq.op = "Obstacle.offsetStates"
    /\ uq.obNum = 1
    /\ JSGt(clock, Num(0))
    /\ uq.result # robot.states

---------------------------------------------------------------------------
(* Claims on the drawing methods and the frame of the scapes               *)

\* C25: maskedObstaclescape.displayGrid displays the grids of exactly the
\* obstacles that are not destroyed and are detected under the current
\* mask.
C25_DisplayUnderCurrentMask ==
    oq.op = "maskedObstaclescape.displayGrid" =>
        oq.result = { obNum \in 0..(Len(obstacles) - 1) :
                        /\ obstacleDestroyed[obNum + 1] = FALSE
                        /\ arrays[undetectionscape][obNum + 1] = FALSE }

\* C26: for every flag setting Obstaclescape.gradV returns the gradient of
\* an obstacle that is neither destroyed nor undetected, never that of a
\* destroyed or undetected one.
C26_GradientOfEligibleObstacle ==
    oq.op \in {"Obstaclescape.gradV", "maskedObstaclescape.gradV"} =>
        \E obNum \in Eligible :
            oq.result = Obstacle_gradV(obstacles[obNum + 1], osetID, ostates)

---------------------------------------------------------------------------
(* Claims on the main loop                                                 *)

\* C27: after every control tick every component of the control vector
\* applied is a number of magnitude at most maxU, and every component of
\* the robot state is a number.
C27_NumericControlAndState ==
    uq.op = "tick" =>
        /\ \A curU \in 1..Len(uq.u) :
               IsNum(uq.u[curU]) /\ ~JSGt(MathAbs(uq.u[curU]), intervener.maxU)
        /\ \A curDim \in 1..Len(robot.states) : IsNum(robot.states[curDim])

\* the set the page's controller acts on has its grid loaded
SelectedSetLoaded ==
    /\ intervener.setID \in 0..(Len(sset.safesets) - 1)
    /\ sset.safesets[intervener.setID + 1].reachset # Undefined

\* C28: once the grid is loaded, every tick of the page's main loop gets a
\* control vector from intervener.u() and integrates the robot exactly once
\* with it, the tick on which the robot is within 0.5 of its goal on both
\* axes included.
C28_EveryTickIntegrates ==
    [][(IsPageTick /\ SelectedSetLoaded) =>
          (/\ ~uq'.threw
           /\ robot' = Robot_update(robot, JSSub(clock', clock), uq'.u))]_vars

\* the goal of the tracker is within 0.5 of the robot on both position axes
GoalWithinHalf ==
    /\ JSLt(MathAbs(JSSub(tracker.set[1], robot.states[1])), Half)
    /\ JSLt(MathAbs(JSSub(tracker.set[2], robot.states[2])), Half)

Recording == intervener.cls = "PaletteIntervention_Contr" /\ intervener.record

\* C29: a PaletteIntervention_Contr constructed with a recorder has appended
\* one event at construction and appends one more on every goal-reached
\* tick and none on any other, so that the events number 1 plus the
\* goal-reached ticks; the undetection field of the event of a tick is the
\* mask right after that tick's resample, and no later tick changes an
\* event already appended.
C29_RecorderEvents ==
    /\ Recording => Len(goalSetEvents) = 1
    /\ [][(uq'.op = "tick" /\ Recording) =>
              (/\ Len(goalSetEvents') =
                      Len(goalSetEvents) + (IF GoalWithinHalf THEN 1 ELSE 0)
               /\ \A event \in 1..Len(goalSetEvents) :
                      goalSetEvents'[event] = goalSetEvents[event]
               /\ GoalWithinHalf =>
                      goalSetEvents'[Len(goalSetEvents')].undetection
                          = arrays'[undetectionscape])]_vars

\* after a goal-reached tick resampled the mask: the event of the
\* construction still holds the first mask, the event of the tick the new
C29_Witness ==
    /\ uq.op = "tick"
    /\ Recording
    /\ Len(goalSetEvents) = 2
    /\ goalSetEvents[1].undetection # arrays[undetectionscape]
    /\ goalSetEvents[2].undetection = arrays[undetectionscape]

---------------------------------------------------------------------------
(* Claims on the frame of the scapes                                       *)

\* the obstacles not marked destroyed
Surviving == { obNum \in 0..(Len(obstacles) - 1) : obstacleDestroyed[obNum + 1] = FALSE }

\* no operation of the scapes changes a destroyed flag or the obstacle list
ScapeFrame ==
    [][oq'.op # "destroy" =>
          (obstacleDestroyed' = obstacleDestroyed /\ obstacles' = obstacles)]_vars

\* the answer of a value, gradient or collision query comes from no
\* destroyed obstacle: it is the sentinel or the answer of a surviving one
DestroyedExcluded ==
    /\ oq.op \in {"Obstaclescape.value", "maskedObstaclescape.value"} =>
          \/ oq.result = Num(curMinValueInit)
          \/ \E obNum \in Surviving :
                 oq.result = Obstacle_value(obstacles[obNum + 1], osetID, ostates)
    /\ oq.op \in {"Obstaclescape.gradV", "maskedObstaclescape.gradV"} =>
          \E obNum \in Surviving :
              oq.result = Obstacle_gradV(obstacles[obNum + 1], osetID, ostates)
    /\ oq.op \in {"Obstaclescape.collisionSetValue",
                   "maskedObstaclescape.collisionSetValue"} =>
          \/ oq.result[1] = Num(curMinValueInit)
          \/ \E obNum \in Surviving :
                 oq.result[1] = Obstacle_collisionSetValue(obstacles[obNum + 1], ostates)

\* C30: no operation of Obstaclescape or maskedObstaclescape (value, gradV,
\* collisionSetValue, displayGrid, render, rerandomizeUndetection) changes
\* an obstacleDestroyed flag or the obstacle list, and an obstacle marked
\* destroyed stays excluded from the value, gradient and collision queries
\* through every later resample and query.
C30_DestroyedStaysExcluded == ScapeFrame /\ []DestroyedExcluded

=============================================================================
